---- MODULE Spec2Model ----
(***************************************************************************)
(* peppermint: declaration merge (FactoryMeta.__new__) and field           *)
(* resolution (Factory._resolve, build, build_batch, to_dict,              *)
(* to_json_dict) with the descriptors of descriptors.py.                   *)
(*                                                                         *)
(* A model definition is a record of `models`; a descriptor instance is    *)
(* identified by <<owner, name>>: the model whose class body created it    *)
(* and the attribute name it was bound to there.  A derived model that     *)
(* inherits a field holds the SAME instance (the base's __dict__ entry).   *)
(***************************************************************************)
EXTENDS Integers, Sequences, FiniteSets, TLC

VARIABLES
    models,     \* Seq of model definitions (classes created by FactoryMeta)
    counter,    \* SequenceDescriptor._counter, by descriptor instance
    faker,      \* state of each model's own Faker instance (__faker__)
    rnd,        \* state of the process-wide `random` module
    rcount,     \* history: number of resolve() calls, by Sequence instance
    soloRnd,    \* history: by model, the state `random` would be in had only
                \* that model's operations run
    soloFaker,  \* history: the same for each model's own Faker instance
    nOps,       \* history: number of build/to_dict operations so far
    last,       \* history: what the last operation did and returned
    threads     \* by thread: its position in SequenceDescriptor.resolve, its
                \* locals, the builds it has left and the values they got

vars ==
    <<models, counter, faker, rnd, rcount, soloRnd, soloFaker, nOps, last, threads>>

----------------------------------------------------------------------------
(* Bounds *)

MaxChain == 3       \* model definitions in SpecMerge
MaxOps == 2         \* build / build_batch / to_dict / to_json_dict calls
MaxBatch == 2       \* largest count given to build_batch
MaxBases == 2       \* base classes written in one class statement
MaxArg == 1         \* largest length, n, k, stdev given to a generator
MaxDepth == 3       \* nested builds the interpreter's stack has room for

----------------------------------------------------------------------------
(* Values.  Every value is [t, v]: t the Python type, v its content. *)

IntVal(n) == [t |-> "int", v |-> n]
StrVal(n) == [t |-> "str", v |-> n]
DateVal(n) == [t |-> "date", v |-> n]

(* Descriptors.  kind, n: start / constant, s: format / sibling read / type *)
StaticValue(val) == [kind |-> "static", n |-> val.v, s |-> val.t]
SequenceDescriptor(format, start) == [kind |-> "seq", n |-> start, s |-> format]
LazyDescriptor(reads) == [kind |-> "lazy", n |-> 0, s |-> reads]
LazyCalls(method) == [kind |-> "lazy", n |-> 1, s |-> method]
IgnoreDescriptor == [kind |-> "ignore", n |-> 0, s |-> ""]
GenInt == [kind |-> "gen", n |-> 0, s |-> "randint"]
AutoDescriptor(type) == [kind |-> "auto", n |-> 0, s |-> type]

(* sub(factory, attrs) and sub_list(factory, count=, attrs=): factory is   *)
(* the index of a model, given as the class ("class") or as a function     *)
(* returning it ("lambda"); attrs are the names of the overrides.          *)
SubFactoryDescriptor(factory, ref, attrs) ==
    [kind |-> "sub", n |-> factory, s |-> ref, count |-> 1, attrs |-> attrs]
SubListFactoryDescriptor(factory, ref, count, attrs) ==
    [kind |-> "sublist", n |-> factory, s |-> ref, count |-> count, attrs |-> attrs]

Decl(name, d) == [name |-> name, d |-> d]

(* The seed of global_config, given to configure() at start-up. *)
GlobalSeed == 1

(* Target shapes: "dict" is the unstructured map, "User" a dataclass with *)
(* two typed fields, "Doc" a dataclass one of whose fields is named        *)
(* _traits, "int" a builtin scalar type.                                   *)
IsDataclass(shape) == shape \in {"User", "Doc"}
HasAnnotations(shape) == shape \in {"User", "Doc"}
TypeHints(shape) ==
    CASE shape = "User" ->
            << [name |-> "id", type |-> "int"], [name |-> "name", type |-> "str"] >>
      [] shape = "Doc" ->
            << [name |-> "id", type |-> "int"], [name |-> "tags", type |-> "str"],
               [name |-> "_traits", type |-> "str"] >>
      [] OTHER -> << >>

(* The class statements the program executes: shape parameter ("" when    *)
(* the class is written without one), __seed__ (0: not given) and the     *)
(* class body in source order.                                            *)
PersonDef ==
    [shape |-> "", seed |-> 0, body |-> <<
        Decl("id", SequenceDescriptor("none", 10)),
        Decl("name", StaticValue(StrVal(1))),
        Decl("full", LazyDescriptor("name")) >>]
AccountDef ==
    [shape |-> "", seed |-> 0, body |-> <<
        Decl("secret", IgnoreDescriptor),
        Decl("id", SequenceDescriptor("str", 1)),
        Decl("code", GenInt) >>]
MemberDef ==
    [shape |-> "", seed |-> 0, body |-> << >>]
ChainDef ==
    [shape |-> "", seed |-> 0, body |-> <<
        Decl("id", SequenceDescriptor("func", 1)),
        Decl("code", LazyDescriptor("full")),
        Decl("tail", LazyDescriptor("secret")),
        Decl("pin", GenInt) >>]
UserDef ==
    [shape |-> "User", seed |-> 2, body |-> <<
        Decl("id", SequenceDescriptor("none", 1)) >>]
RedeclDef ==
    [shape |-> "", seed |-> 0, body |-> <<
        Decl("name", StaticValue(DateVal(2))),
        Decl("id", SequenceDescriptor("none", 5)) >>]
ScalarDef ==
    [shape |-> "int", seed |-> 0, body |-> <<
        Decl("id", SequenceDescriptor("none", 1)) >>]
DocDef ==
    [shape |-> "Doc", seed |-> 0, body |-> <<
        Decl("id", IgnoreDescriptor) >>]

ClassDefs ==
    {PersonDef, AccountDef, MemberDef, ChainDef, UserDef, RedeclDef, ScalarDef,
     DocDef}

(* The program of Spec: its class statements in execution order, each     *)
(* with its base list (indices of earlier statements).                     *)
Program == <<
    [def |-> PersonDef, bases |-> << >>],
    [def |-> AccountDef, bases |-> << >>],
    [def |-> ChainDef, bases |-> <<1>>],
    [def |-> MemberDef, bases |-> <<2>>],
    [def |-> UserDef, bases |-> << >>],
    [def |-> ScalarDef, bases |-> << >>] >>

(* The override dictionaries callers pass, in keyword order. *)
OverrideValue == IntVal(77)
OverrideSets == { << >>, <<"name">>, <<"full", "id">>, <<"secret">> }

----------------------------------------------------------------------------
(* Sequences as ordered maps (Python dict) *)

Range(s) == {s[i] : i \in 1..Len(s)}
KeysOf(decls) == {decls[i].name : i \in 1..Len(decls)}
IndexOf(decls, name) == CHOOSE i \in 1..Len(decls) : decls[i].name = name
Get(decls, name) == decls[IndexOf(decls, name)]

(* dict.__setitem__: an existing key keeps its position, a new key is     *)
(* appended.                                                              *)
DictSet(decls, e) ==
    IF e.name \in KeysOf(decls)
    THEN [decls EXCEPT ![IndexOf(decls, e.name)] = e]
    ELSE Append(decls, e)

(* dict.update(other): __setitem__ for each item of other, in its order *)
RECURSIVE DictUpdate(_, _)
DictUpdate(decls, other) ==
    IF other = << >> THEN decls
    ELSE DictUpdate(DictSet(decls, Head(other)), Tail(other))

----------------------------------------------------------------------------
(* Declaration merge: factories.py, _collect_definitions, smart_extractor  *)
(* and FactoryMeta.__new__                                                 *)

(* The explicit declarations of one class namespace, in source order.     *)
(* Each entry is the descriptor instance bound there: <<owner, name>>.     *)
CollectDefinitions(owner, body) ==
    [k \in 1..Len(body) |->
        [name |-> body[k].name, owner |-> owner, d |-> body[k].d]]

(* iter_items: the items of a mapping whose name does not start with two   *)
(* underscores and is not _declarations or _traits                        *)
StartsWithDunder(name) == name \in {"__version__", "__slots__"}
IterItems(items) ==
    SelectSeq(items, LAMBDA it : /\ ~StartsWithDunder(it.name)
                                 /\ it.name \notin {"_declarations", "_traits"})

(* One AutoDescriptor per type hint that has no manual declaration. *)
RECURSIVE CollectFromDataclass(_, _, _)
CollectFromDataclass(self, hints, manual) ==
    IF hints = << >> THEN << >>
    ELSE LET h == Head(hints)
             rest == CollectFromDataclass(self, Tail(hints), manual)
         IN IF h.name \in manual THEN rest
            ELSE <<[name |-> h.name, owner |-> self,
                    d |-> AutoDescriptor(h.type)]>> \o rest

SmartExtractorRaises(shape) == ~IsDataclass(shape) /\ ~HasAnnotations(shape)
SmartExtractor(self, shape, manual) ==
    CollectFromDataclass(self, IterItems(TypeHints(shape)), manual)

(* A variant of MergeBases with a slip in it: what is merged from a base   *)
(* is its declaration map, not its own namespace.                         *)
RECURSIVE MergeBasesDeclarations(_, _, _)
MergeBasesDeclarations(ms, bases, k) ==
    IF k = 0 THEN << >>
    ELSE DictUpdate(MergeBasesDeclarations(ms, bases, k - 1),
                    ms[bases[Len(bases) + 1 - k]].decls)

(* for base in reversed(bases): declarations.update(base's own namespace) *)
RECURSIVE MergeBases(_, _, _)
MergeBases(ms, bases, k) ==
    IF k = 0 THEN << >>
    ELSE DictUpdate(MergeBases(ms, bases, k - 1),
                    CollectDefinitions(bases[Len(bases) + 1 - k],
                                       ms[bases[Len(bases) + 1 - k]].body))

ExplicitDeclarations(ms, self, cdef, bases) ==
    DictUpdate(MergeBases(ms, bases, Len(bases)),
               CollectDefinitions(self, cdef.body))

(* __orig_bases__ exists only when the class is written Factory[shape] *)
ModelClass(cdef) == IF cdef.shape = "" THEN "dict" ELSE cdef.shape

Declarations(ms, self, cdef, bases) ==
    LET explicit == ExplicitDeclarations(ms, self, cdef, bases)
    IN IF cdef.shape = "" THEN explicit
       ELSE DictUpdate(explicit,
                       SmartExtractor(self, cdef.shape, KeysOf(explicit)))

----------------------------------------------------------------------------
(* Random sources.  A source is a linear congruential generator over 0..7; *)
(* a draw advances the state and returns it.                               *)

RngNext(s) == (5 * s + 3) % 8
SeedState(seed) == seed % 8

(* __seed__ of the class statement, else the seed of global_config *)
SeedOf(cdef) == IF cdef.seed = 0 THEN GlobalSeed ELSE cdef.seed

----------------------------------------------------------------------------
(* Descriptors: descriptors.py *)

DescId(e) == <<e.owner, e.name>>
NoneVal == [t |-> "NoneType", v |-> 0]

(* Attributes of the dict object behind the proxy (getattr fallback) *)
DictAttrs == {"items", "keys", "values", "get", "update", "pop", "clear"}

(* ModelProxy.__getattr__: mapping[name], else getattr(mapping, name),    *)
(* else AttributeError                                                    *)
ModelProxyGetattr(resolved, name) ==
    IF name \in DOMAIN resolved THEN [ok |-> TRUE, val |-> resolved[name]]
    ELSE IF name \in DictAttrs THEN [ok |-> TRUE, val |-> [t |-> "method", v |-> 0]]
    ELSE [ok |-> FALSE, val |-> NoneVal]

(* proxy.<name>: the slot _data is found by normal attribute lookup, any   *)
(* other name goes to __getattr__                                         *)
ProxyGetAttribute(resolved, name) ==
    IF name = "_data" THEN [ok |-> TRUE, val |-> [t |-> "dict", v |-> 0]]
    ELSE ModelProxyGetattr(resolved, name)

(* The functions given to lazy(): each reads one sibling through the      *)
(* proxy ("" reads none) and formats it into a string.                     *)
LazyFunc(reads, resolved) ==
    IF reads = "" THEN [ok |-> TRUE, val |-> StrVal(0)]
    ELSE LET got == ProxyGetAttribute(resolved, reads)
         IN [ok |-> got.ok, val |-> StrVal(got.val.v)]

(* What the methods of the dict behind the proxy do to it, as called by    *)
(* the functions of LazyCalls: p.update({"extra": 0}), p.clear(),          *)
(* p.pop("id"), p._data.__setitem__("id", 0)                               *)
DictCall(method, resolved) ==
    CASE method = "update" ->
            [ok |-> TRUE, data |-> ("extra" :> IntVal(0)) @@ resolved]
      [] method = "clear" -> [ok |-> TRUE, data |-> << >>]
      [] method = "pop" ->
            [ok |-> "id" \in DOMAIN resolved,
             data |-> [k \in DOMAIN resolved \ {"id"} |-> resolved[k]]]
      [] method = "_data" ->
            [ok |-> TRUE, data |-> ("id" :> IntVal(0)) @@ resolved]
      [] OTHER -> [ok |-> TRUE, data |-> resolved]

(* The functions of LazyCalls: each gets an attribute of the proxy, calls  *)
(* it and returns None.  data is the mapping behind the proxy afterwards.  *)
LazyCallFunc(method, resolved) ==
    LET got == ProxyGetAttribute(resolved, method)
        callable == got.ok /\ got.val.t \in {"method", "dict"}
        done == DictCall(method, resolved)
    IN IF callable /\ done.ok
       THEN [ok |-> TRUE, val |-> NoneVal, data |-> done.data]
       ELSE [ok |-> FALSE, val |-> NoneVal, data |-> resolved]

(* The callable formats given to sequence(): "func" is                     *)
(* lambda p, n: n * 10, "item" is lambda p, n: Items[n - 1] over a tuple   *)
(* of two, which raises IndexError past its end.                           *)
Items == <<"a", "b">>
SequenceRaises(format, n) == format = "item" /\ n > Len(Items)

(* SequenceDescriptor.resolve, after n = self._counter *)
SequenceValue(format, n) ==
    CASE format = "func" -> IntVal(n * 10)
      [] format = "item" -> StrVal(n)
      [] format = "str" -> StrVal(n)
      [] OTHER -> IntVal(n)

(* <Descriptor>.resolve(faker, ModelProxy(resolved)) for entry e of model  *)
(* m.  R is the interpreter state; the result is R with val (the value     *)
(* returned) or err (an exception is propagating).                         *)

StaticResolve(e, R) == [R EXCEPT !.val = [t |-> e.d.s, v |-> e.d.n]]

(* Variants of SequenceResolve with a slip in them: the counter is         *)
(* incremented before it is read; it is not incremented on the path that  *)
(* returns through the callable format; it is one counter for all         *)
(* instances.                                                             *)
SequenceResolvePreIncrement(e, R) ==
    LET n == R.cnt[DescId(e)] + 1
        val == SequenceValue(e.d.s, n)
    IN [R EXCEPT !.cnt[DescId(e)] = n,
                 !.rc[DescId(e)] = @ + 1,
                 !.val = val,
                 !.err = SequenceRaises(e.d.s, n),
                 !.ys = Append(@, [id |-> DescId(e),
                                   ord |-> R.rc[DescId(e)] + 1,
                                   val |-> val])]

SequenceResolveIncrementAfterReturn(e, R) ==
    LET n == R.cnt[DescId(e)]
        val == SequenceValue(e.d.s, n)
    IN [R EXCEPT !.cnt[DescId(e)] = IF e.d.s = "func" THEN n ELSE n + 1,
                 !.rc[DescId(e)] = @ + 1,
                 !.val = val,
                 !.err = SequenceRaises(e.d.s, n),
                 !.ys = Append(@, [id |-> DescId(e),
                                   ord |-> R.rc[DescId(e)] + 1,
                                   val |-> val])]

SequenceResolveSharedCounter(e, R) ==
    LET n == R.cnt[DescId(e)]
        val == SequenceValue(e.d.s, n)
    IN [R EXCEPT !.cnt = [id \in DOMAIN R.cnt |-> R.cnt[id] + 1],
                 !.rc[DescId(e)] = @ + 1,
                 !.val = val,
                 !.err = SequenceRaises(e.d.s, n),
                 !.ys = Append(@, [id |-> DescId(e),
                                   ord |-> R.rc[DescId(e)] + 1,
                                   val |-> val])]

SequenceResolve(e, R) ==
    LET n == R.cnt[DescId(e)]
        val == SequenceValue(e.d.s, n)
    IN [R EXCEPT !.cnt[DescId(e)] = n + 1,
                 !.rc[DescId(e)] = @ + 1,
                 !.val = val,
                 !.err = SequenceRaises(e.d.s, n),
                 !.ys = Append(@, [id |-> DescId(e),
                                   ord |-> R.rc[DescId(e)] + 1,
                                   val |-> val])]

LazyResolve(e, R) ==
    IF e.d.n = 1
    THEN LET got == LazyCallFunc(e.d.s, R.resolved)
         IN [R EXCEPT !.val = got.val,
                      !.err = ~got.ok,
                      !.resolved = got.data,
                      !.lazy = Append(@, [name |-> e.name,
                                          saw |-> DOMAIN R.resolved])]
    ELSE LET got == LazyFunc(e.d.s, R.resolved)
         IN [R EXCEPT !.val = got.val,
                      !.err = ~got.ok,
                      !.lazy = Append(@, [name |-> e.name,
                                          saw |-> DOMAIN R.resolved])]

(* _Gen().int(min, max): CallDescriptor(random.randint, min, max).resolve *)
GenResolve(e, R) ==
    LET s == RngNext(R.rnd)
    IN [R EXCEPT !.rnd = s, !.val = IntVal(s),
                 !.dr = Append(@, [src |-> "random", val |-> s])]

(* Type annotations, by the text of the annotation.  typing.get_args and   *)
(* typing.get_origin of each.                                              *)
GetArgs(t) ==
    CASE t = "list[int]" -> <<"int">>
      [] t = "list[str]" -> <<"str">>
      [] t = "dict[str, int]" -> <<"str", "int">>
      [] t = "Optional[str]" -> <<"str", "NoneType">>
      [] t = "Optional[int]" -> <<"int", "NoneType">>
      [] t = "Optional[date]" -> <<"date", "NoneType">>
      [] t = "Optional[object]" -> <<"object", "NoneType">>
      [] t = "Optional[list[int]]" -> <<"list[int]", "NoneType">>
      [] t = "Optional[dict[str, int]]" -> <<"dict[str, int]", "NoneType">>
      [] t = "Union[int, str]" -> <<"int", "str">>
      [] OTHER -> << >>
GetOrigin(t) ==
    CASE t \in {"list[int]", "list[str]"} -> "list"
      [] t = "dict[str, int]" -> "dict"
      [] t \in {"Optional[str]", "Optional[int]", "Optional[date]",
                "Optional[object]", "Optional[list[int]]",
                "Optional[dict[str, int]]", "Union[int, str]"} -> "Union"
      [] OTHER -> "None"

(* _unwrap_optional *)
UnwrapOptional(field_type) ==
    LET args == GetArgs(field_type)
        non_none == SelectSeq(args, LAMBDA a : a # "NoneType")
    IN IF args # << >> /\ Len(non_none) = 1 THEN non_none[1] ELSE field_type

(* str.lower() and str.replace("_", "") on a sequence of characters *)
UpperCase == <<"A", "B", "C", "D", "E", "F", "G", "H", "I", "J", "K", "L", "M",
               "N", "O", "P", "Q", "R", "S", "T", "U", "V", "W", "X", "Y", "Z">>
LowerCase == <<"a", "b", "c", "d", "e", "f", "g", "h", "i", "j", "k", "l", "m",
               "n", "o", "p", "q", "r", "s", "t", "u", "v", "w", "x", "y", "z">>
Lower(c) ==
    IF \E i \in 1..Len(UpperCase) : UpperCase[i] = c
    THEN LowerCase[CHOOSE i \in 1..Len(UpperCase) : UpperCase[i] = c]
    ELSE c
Normalize(chars) ==
    SelectSeq([i \in 1..Len(chars) |-> Lower(chars[i])], LAMBDA c : c # "_")

(* The characters of the field names used (str as a sequence) *)
FieldChars(name) ==
    CASE name = "id" -> <<"i", "d">>
      [] name = "Pk" -> <<"P", "k">>
      [] name = "uid" -> <<"u", "i", "d">>
      [] name = "email" -> <<"e", "m", "a", "i", "l">>
      [] name = "E_Mail" -> <<"E", "_", "M", "a", "i", "l">>
      [] name = "first_name" -> <<"f", "i", "r", "s", "t", "_", "n", "a", "m", "e">>
      [] name = "age" -> <<"a", "g", "e">>
      [] name = "birth_date" -> <<"b", "i", "r", "t", "h", "_", "d", "a", "t", "e">>
      [] name = "tags" -> <<"t", "a", "g", "s">>
      [] name = "something" -> <<"s", "o", "m", "e", "t", "h", "i", "n", "g">>
      [] name = "port" -> <<"p", "o", "r", "t">>
      [] name = "_traits" -> <<"_", "t", "r", "a", "i", "t", "s">>
      [] name = "name" -> <<"n", "a", "m", "e">>
      [] OTHER -> << >>

(* AutoDescriptor.resolve: the case clauses of `match name`, in order: the *)
(* names of the pattern, the type of the guard, the call returned          *)
NameTable == <<
    [names |-> {
        <<"i", "d">>, <<"u", "u", "i", "d">>, <<"p", "k">>,
        <<"u", "i", "d">>},
     type |-> "UUID", gen |-> "uuid.uuid4()"],
    [names |-> {
        <<"i", "d">>, <<"p", "k">>},
     type |-> "int", gen |-> "faker.random_int(min=1)"],
    [names |-> {
        <<"f", "i", "r", "s", "t", "n", "a", "m", "e">>,
        <<"f", "n", "a", "m", "e">>},
     type |-> "str", gen |-> "faker.first_name()"],
    [names |-> {
        <<"l", "a", "s", "t", "n", "a", "m", "e">>,
        <<"l", "n", "a", "m", "e">>, <<"s", "u", "r", "n", "a", "m", "e">>,
        <<"f", "a", "m", "i", "l", "y", "n", "a", "m", "e">>},
     type |-> "str", gen |-> "faker.last_name()"],
    [names |-> {
        <<"f", "u", "l", "l", "n", "a", "m", "e">>, <<"n", "a", "m", "e">>,
        <<"d", "i", "s", "p", "l", "a", "y", "n", "a", "m", "e">>},
     type |-> "str", gen |-> "faker.name()"],
    [names |-> {
        <<"u", "s", "e", "r", "n", "a", "m", "e">>,
        <<"l", "o", "g", "i", "n">>},
     type |-> "str", gen |-> "faker.user_name()"],
    [names |-> {
        <<"j", "o", "b", "t", "i", "t", "l", "e">>,
        <<"p", "o", "s", "i", "t", "i", "o", "n">>, <<"r", "o", "l", "e">>,
        <<"o", "c", "c", "u", "p", "a", "t", "i", "o", "n">>},
     type |-> "str", gen |-> "faker.job()"],
    [names |-> {
        <<"e", "m", "a", "i", "l">>,
        <<"e", "m", "a", "i", "l", "a", "d", "d", "r", "e", "s", "s">>},
     type |-> "str", gen |-> "faker.email()"],
    [names |-> {
        <<"p", "h", "o", "n", "e">>,
        <<"p", "h", "o", "n", "e", "n", "u", "m", "b", "e", "r">>,
        <<"m", "o", "b", "i", "l", "e">>},
     type |-> "str", gen |-> "faker.phone_number()"],
    [names |-> {
        <<"s", "t", "r", "e", "e", "t">>,
        <<"s", "t", "r", "e", "e", "t", "a", "d", "d", "r", "e", "s", "s">>,
        <<"a", "d", "d", "r", "e", "s", "s">>},
     type |-> "str", gen |-> "faker.street_address()"],
    [names |-> {
        <<"c", "i", "t", "y">>, <<"t", "o", "w", "n">>},
     type |-> "str", gen |-> "faker.city()"],
    [names |-> {
        <<"s", "t", "a", "t", "e">>, <<"r", "e", "g", "i", "o", "n">>,
        <<"p", "r", "o", "v", "i", "n", "c", "e">>},
     type |-> "str", gen |-> "faker.state()"],
    [names |-> {
        <<"c", "o", "u", "n", "t", "r", "y">>,
        <<"c", "o", "u", "n", "t", "r", "y", "n", "a", "m", "e">>},
     type |-> "str", gen |-> "faker.country()"],
    [names |-> {
        <<"c", "o", "u", "n", "t", "r", "y", "c", "o", "d", "e">>},
     type |-> "str", gen |-> "faker.country_code()"],
    [names |-> {
        <<"z", "i", "p", "c", "o", "d", "e">>,
        <<"p", "o", "s", "t", "a", "l", "c", "o", "d", "e">>,
        <<"p", "o", "s", "t", "c", "o", "d", "e">>},
     type |-> "str", gen |-> "faker.postcode()"],
    [names |-> {
        <<"c", "o", "m", "p", "a", "n", "y", "n", "a", "m", "e">>,
        <<"c", "o", "m", "p", "a", "n", "y">>,
        <<"o", "r", "g", "a", "n", "i", "z", "a", "t", "i", "o", "n">>,
        <<"o", "r", "g">>},
     type |-> "str", gen |-> "faker.company()"],
    [names |-> {
        <<"d", "e", "s", "c", "r", "i", "p", "t", "i", "o", "n">>,
        <<"d", "e", "s", "c">>, <<"b", "i", "o">>,
        <<"s", "u", "m", "m", "a", "r", "y">>, <<"n", "o", "t", "e">>,
        <<"n", "o", "t", "e", "s">>},
     type |-> "str", gen |-> "faker.sentence()"],
    [names |-> {
        <<"t", "i", "t", "l", "e">>, <<"h", "e", "a", "d", "i", "n", "g">>},
     type |-> "str", gen |-> "faker.sentence(nb_words=4)"],
    [names |-> {
        <<"s", "l", "u", "g">>},
     type |-> "str", gen |-> "faker.slug()"],
    [names |-> {
        <<"u", "r", "l">>, <<"w", "e", "b", "s", "i", "t", "e">>,
        <<"h", "o", "m", "e", "p", "a", "g", "e">>},
     type |-> "str", gen |-> "faker.url()"],
    [names |-> {
        <<"i", "p", "a", "d", "d", "r", "e", "s", "s">>, <<"i", "p">>,
        <<"i", "p", "v", "4">>},
     type |-> "str", gen |-> "faker.ipv4()"],
    [names |-> {
        <<"i", "p", "v", "6">>},
     type |-> "str", gen |-> "faker.ipv6()"],
    [names |-> {
        <<"m", "a", "c", "a", "d", "d", "r", "e", "s", "s">>,
        <<"m", "a", "c">>},
     type |-> "str", gen |-> "faker.mac_address()"],
    [names |-> {
        <<"u", "s", "e", "r", "a", "g", "e", "n", "t">>, <<"u", "a">>},
     type |-> "str", gen |-> "faker.user_agent()"],
    [names |-> {
        <<"p", "a", "s", "s", "w", "o", "r", "d">>,
        <<"p", "a", "s", "s", "w", "d">>, <<"s", "e", "c", "r", "e", "t">>},
     type |-> "str", gen |-> "faker.password()"],
    [names |-> {
        <<"t", "o", "k", "e", "n">>,
        <<"a", "c", "c", "e", "s", "s", "t", "o", "k", "e", "n">>,
        <<"a", "p", "i", "k", "e", "y">>},
     type |-> "str", gen |-> "faker.sha256()"],
    [names |-> {
        <<"f", "i", "l", "e", "n", "a", "m", "e">>},
     type |-> "str", gen |-> "faker.file_name()"],
    [names |-> {
        <<"f", "i", "l", "e", "p", "a", "t", "h">>, <<"p", "a", "t", "h">>},
     type |-> "str", gen |-> "faker.file_path()"],
    [names |-> {
        <<"m", "i", "m", "e", "t", "y", "p", "e">>,
        <<"c", "o", "n", "t", "e", "n", "t", "t", "y", "p", "e">>},
     type |-> "str", gen |-> "faker.mime_type()"],
    [names |-> {
        <<"t", "i", "m", "e", "z", "o", "n", "e">>, <<"t", "z">>},
     type |-> "str", gen |-> "faker.timezone()"],
    [names |-> {
        <<"l", "o", "c", "a", "l", "e">>, <<"l", "a", "n", "g">>,
        <<"l", "a", "n", "g", "u", "a", "g", "e">>},
     type |-> "str", gen |-> "faker.locale()"],
    [names |-> {
        <<"c", "o", "l", "o", "r">>, <<"c", "o", "l", "o", "u", "r">>,
        <<"h", "e", "x", "c", "o", "l", "o", "r">>},
     type |-> "str", gen |-> "faker.hex_color()"],
    [names |-> {
        <<"b", "i", "r", "t", "h", "d", "a", "t", "e">>, <<"d", "o", "b">>,
        <<"d", "a", "t", "e", "o", "f", "b", "i", "r", "t", "h">>},
     type |-> "date", gen |-> "faker.date_of_birth()"],
    [names |-> {
        <<"s", "t", "a", "r", "t", "d", "a", "t", "e">>,
        <<"f", "r", "o", "m", "d", "a", "t", "e">>},
     type |-> "date", gen |-> "faker.date_object()"],
    [names |-> {
        <<"e", "n", "d", "d", "a", "t", "e">>,
        <<"t", "o", "d", "a", "t", "e">>,
        <<"e", "x", "p", "i", "r", "y", "d", "a", "t", "e">>,
        <<"e", "x", "p", "i", "r", "e", "s", "a", "t">>},
     type |-> "date", gen |-> "faker.date_object()"],
    [names |-> {
        <<"c", "r", "e", "a", "t", "e", "d", "a", "t">>,
        <<"u", "p", "d", "a", "t", "e", "d", "a", "t">>,
        <<"d", "e", "l", "e", "t", "e", "d", "a", "t">>,
        <<"t", "i", "m", "e", "s", "t", "a", "m", "p">>},
     type |-> "datetime", gen |-> "faker.date_time()"],
    [names |-> {
        <<"p", "u", "b", "l", "i", "s", "h", "e", "d", "a", "t">>,
        <<"p", "o", "s", "t", "e", "d", "a", "t">>,
        <<"s", "e", "n", "t", "a", "t">>},
     type |-> "datetime", gen |-> "faker.date_time()"],
    [names |-> {
        <<"a", "g", "e">>},
     type |-> "int", gen |-> "faker.random_int(min=0, max=120)"],
    [names |-> {
        <<"c", "o", "u", "n", "t">>,
        <<"q", "u", "a", "n", "t", "i", "t", "y">>, <<"q", "t", "y">>,
        <<"t", "o", "t", "a", "l">>},
     type |-> "int", gen |-> "faker.random_int(min=0, max=1000)"],
    [names |-> {
        <<"p", "o", "r", "t">>},
     type |-> "int", gen |-> "faker.port_number()"] >>

(* AutoDescriptor.resolve after the match statement: the chain of type     *)
(* tests.  First a variant with a slip in it: it raises for a type none of *)
(* the tests accepts.                                                      *)
AutoFallbackRaising(ft) ==
    CASE ft = "str" -> [gen |-> "faker.pystr()", raises |-> FALSE]
      [] ft = "int" -> [gen |-> "faker.random_int()", raises |-> FALSE]
      [] ft = "float" -> [gen |-> "faker.pyfloat()", raises |-> FALSE]
      [] ft = "bool" -> [gen |-> "faker.boolean()", raises |-> FALSE]
      [] ft = "datetime" -> [gen |-> "faker.date_time()", raises |-> FALSE]
      [] ft = "date" -> [gen |-> "faker.date_object()", raises |-> FALSE]
      [] ft = "time" -> [gen |-> "faker.time_object()", raises |-> FALSE]
      [] ft = "Decimal" -> [gen |-> "faker.pydecimal()", raises |-> FALSE]
      [] ft = "UUID" -> [gen |-> "uuid.uuid4()", raises |-> FALSE]
      [] ft = "bytes" -> [gen |-> "faker.binary(length=16)", raises |-> FALSE]
      [] GetOrigin(ft) = "list" -> [gen |-> "[]", raises |-> FALSE]
      [] GetOrigin(ft) = "dict" -> [gen |-> "{}", raises |-> FALSE]
      [] OTHER -> [gen |-> "None", raises |-> TRUE]

AutoFallback(ft) ==
    CASE ft = "str" -> [gen |-> "faker.pystr()", raises |-> FALSE]
      [] ft = "int" -> [gen |-> "faker.random_int()", raises |-> FALSE]
      [] ft = "float" -> [gen |-> "faker.pyfloat()", raises |-> FALSE]
      [] ft = "bool" -> [gen |-> "faker.boolean()", raises |-> FALSE]
      [] ft = "datetime" -> [gen |-> "faker.date_time()", raises |-> FALSE]
      [] ft = "date" -> [gen |-> "faker.date_object()", raises |-> FALSE]
      [] ft = "time" -> [gen |-> "faker.time_object()", raises |-> FALSE]
      [] ft = "Decimal" -> [gen |-> "faker.pydecimal()", raises |-> FALSE]
      [] ft = "UUID" -> [gen |-> "uuid.uuid4()", raises |-> FALSE]
      [] ft = "bytes" -> [gen |-> "faker.binary(length=16)", raises |-> FALSE]
      [] GetOrigin(ft) = "list" -> [gen |-> "[]", raises |-> FALSE]
      [] GetOrigin(ft) = "dict" -> [gen |-> "{}", raises |-> FALSE]
      [] OTHER -> [gen |-> "None", raises |-> FALSE]

(* The first case clause of `match name` whose pattern has the name and    *)
(* whose guard accepts the type; 0 when none does                          *)
FirstClause(table, name, ft) ==
    LET hit == {i \in 1..Len(table) :
                    name \in table[i].names /\ ft = table[i].type}
    IN IF hit = {} THEN 0 ELSE CHOOSE i \in hit : \A j \in hit : i <= j

GeneratorOf(table, hit, fallback) ==
    IF hit # 0
    THEN [gen |-> table[hit].gen, named |-> TRUE, raises |-> FALSE]
    ELSE [gen |-> fallback.gen, named |-> FALSE, raises |-> fallback.raises]

AutoClause(table, name, ft) ==
    GeneratorOf(table, FirstClause(table, name, ft), AutoFallback(ft))

(* AutoDescriptor.resolve: which expression it returns for a field *)
AutoGenerator(field_name, field_type) ==
    AutoClause(NameTable, Normalize(FieldChars(field_name)),
               UnwrapOptional(field_type))

(* The type of the value each expression returns *)
ReturnType(gen) ==
    CASE gen \in {"faker.random_int(min=1)", "faker.random_int()",
                  "faker.random_int(min=0, max=120)",
                  "faker.random_int(min=0, max=1000)",
                  "faker.port_number()"} -> "int"
      [] gen = "faker.pyfloat()" -> "float"
      [] gen = "faker.boolean()" -> "bool"
      [] gen = "faker.date_time()" -> "datetime"
      [] gen \in {"faker.date_object()", "faker.date_of_birth()"} -> "date"
      [] gen = "faker.time_object()" -> "time"
      [] gen = "faker.pydecimal()" -> "Decimal"
      [] gen = "uuid.uuid4()" -> "UUID"
      [] gen = "faker.binary(length=16)" -> "bytes"
      [] gen = "[]" -> "list"
      [] gen = "{}" -> "dict"
      [] gen = "None" -> "NoneType"
      [] OTHER -> "str"
DrawsFromFaker(gen) == gen \notin {"uuid.uuid4()", "[]", "{}", "None"}

(* AutoDescriptor.resolve: a faker call draws from the model's faker; the  *)
(* content of a uuid4 (operating-system entropy) is not modelled           *)
AutoApply(m, R, g, s) ==
    IF g.raises THEN [R EXCEPT !.err = TRUE]
    ELSE IF DrawsFromFaker(g.gen)
    THEN [R EXCEPT !.fk[m] = s, !.val = [t |-> ReturnType(g.gen), v |-> s],
                   !.dr = Append(@, [src |-> "faker", val |-> s])]
    ELSE [R EXCEPT !.val = [t |-> ReturnType(g.gen), v |-> 0]]
AutoResolve(m, e, R) ==
    AutoApply(m, R, AutoGenerator(e.name, e.d.s), RngNext(R.fk[m]))

(* IgnoreDescriptor.resolve raises RuntimeError *)
IgnoreResolve(e, R) == [R EXCEPT !.err = TRUE]

(* Defined after the entry points, which the descriptors of nested models *)
(* call.                                                                   *)
RECURSIVE DescriptorResolve(_, _, _)

----------------------------------------------------------------------------
(* Resolution: factories.py, Factory._resolve *)

OvDict(names) == [i \in 1..Len(names) |-> [name |-> names[i], val |-> OverrideValue]]
OvKeys(ov) == {ov[i].name : i \in 1..Len(ov)}

SetItem(resolved, name, val) == (name :> val) @@ resolved
Written(R, ph, name, val) ==
    [R EXCEPT !.resolved = SetItem(@, name, val),
              !.trace = Append(@, [ph |-> ph, name |-> name])]

(* The interpreter state at the start of one _resolve call in world W *)
Start(W) ==
    [cnt |-> W.cnt, rc |-> W.rc, fk |-> W.fk, rnd |-> W.rnd,
     ys |-> W.ys, dr |-> W.dr, ms |-> W.ms, depth |-> W.depth, calls |-> W.calls,
     resolved |-> << >>, ignored |-> {}, lazy_fields |-> << >>,
     trace |-> << >>, lazy |-> << >>, err |-> FALSE, val |-> NoneVal]

(* resolved[field_name] = descriptor.resolve(...): nothing is written     *)
(* when resolve raised                                                     *)
Assigned(R1, ph, name) == IF R1.err THEN R1 ELSE Written(R1, ph, name, R1.val)

(* A variant of EagerLoop with a slip in it: the test for IgnoreDescriptor *)
(* is missing, so an ignored field is resolved like any descriptor.       *)
RECURSIVE EagerLoopResolvesIgnored(_, _, _, _, _)
EagerLoopResolvesIgnored(m, decls, ov, i, R) ==
    IF i > Len(decls) \/ R.err THEN R
    ELSE LET e == decls[i] IN
         IF e.name \in OvKeys(ov)
         THEN EagerLoopResolvesIgnored(m, decls, ov, i + 1, R)
         ELSE IF e.d.kind = "lazy"
         THEN EagerLoopResolvesIgnored(m, decls, ov, i + 1,
                        [R EXCEPT !.lazy_fields = Append(@, e)])
         ELSE EagerLoopResolvesIgnored(m, decls, ov, i + 1,
                        Assigned(DescriptorResolve(m, e, R), 1, e.name))

(* A variant of EagerLoop with a slip in it: the descriptor of an          *)
(* overridden field is resolved and its value dropped.                    *)
RECURSIVE EagerLoopResolvesOverridden(_, _, _, _, _)
EagerLoopResolvesOverridden(m, decls, ov, i, R) ==
    IF i > Len(decls) \/ R.err THEN R
    ELSE LET e == decls[i] IN
         IF e.d.kind = "ignore"
         THEN EagerLoopResolvesOverridden(m, decls, ov, i + 1,
                        [R EXCEPT !.ignored = @ \cup {e.name}])
         ELSE IF e.d.kind = "lazy"
         THEN EagerLoopResolvesOverridden(m, decls, ov, i + 1,
                        [R EXCEPT !.lazy_fields = Append(@, e)])
         ELSE IF e.name \in OvKeys(ov)
         THEN EagerLoopResolvesOverridden(m, decls, ov, i + 1,
                        DescriptorResolve(m, e, R))
         ELSE EagerLoopResolvesOverridden(m, decls, ov, i + 1,
                        Assigned(DescriptorResolve(m, e, R), 1, e.name))

(* A variant of EagerLoop with a slip in it: a lazy field is resolved in   *)
(* the first loop, at its place among the declarations.                   *)
RECURSIVE EagerLoopLazyInPlace(_, _, _, _, _)
EagerLoopLazyInPlace(m, decls, ov, i, R) ==
    IF i > Len(decls) \/ R.err THEN R
    ELSE LET e == decls[i] IN
         IF e.name \in OvKeys(ov) THEN EagerLoopLazyInPlace(m, decls, ov, i + 1, R)
         ELSE IF e.d.kind = "ignore"
         THEN EagerLoopLazyInPlace(m, decls, ov, i + 1,
                        [R EXCEPT !.ignored = @ \cup {e.name}])
         ELSE EagerLoopLazyInPlace(m, decls, ov, i + 1,
                        Assigned(DescriptorResolve(m, e, R), 1, e.name))

(* first loop: the declarations, in order *)
RECURSIVE EagerLoop(_, _, _, _, _)
EagerLoop(m, decls, ov, i, R) ==
    IF i > Len(decls) \/ R.err THEN R
    ELSE LET e == decls[i] IN
         IF e.name \in OvKeys(ov) THEN EagerLoop(m, decls, ov, i + 1, R)
         ELSE IF e.d.kind = "ignore"
         THEN EagerLoop(m, decls, ov, i + 1,
                        [R EXCEPT !.ignored = @ \cup {e.name}])
         ELSE IF e.d.kind = "lazy"
         THEN EagerLoop(m, decls, ov, i + 1,
                        [R EXCEPT !.lazy_fields = Append(@, e)])
         ELSE EagerLoop(m, decls, ov, i + 1,
                        Assigned(DescriptorResolve(m, e, R), 1, e.name))

(* second loop: the overrides, in the caller's order *)
RECURSIVE OverrideLoop(_, _, _)
OverrideLoop(ov, i, R) ==
    IF i > Len(ov) \/ R.err THEN R
    ELSE IF ov[i].name \in R.ignored THEN OverrideLoop(ov, i + 1, R)
    ELSE OverrideLoop(ov, i + 1, Written(R, 2, ov[i].name, ov[i].val))

(* third loop: the lazy fields collected by the first *)
RECURSIVE LazyLoop(_, _, _, _)
LazyLoop(m, ov, i, R) ==
    IF i > Len(R.lazy_fields) \/ R.err THEN R
    ELSE LET e == R.lazy_fields[i] IN
         IF e.name \in OvKeys(ov) THEN LazyLoop(m, ov, i + 1, R)
         ELSE LazyLoop(m, ov, i + 1,
                       Assigned(DescriptorResolve(m, e, R), 3, e.name))

ResolveFields(ms, m, ov, W) ==
    LazyLoop(m, ov, 1,
        OverrideLoop(ov, 1,
            EagerLoop(m, ms[m].decls, ov, 1, Start(W))))

----------------------------------------------------------------------------
(* Entry points: factories.py, Factory.build, build_batch, to_dict,        *)
(* to_json_dict.  A world W is the mutable state they run in; each returns *)
(* [ok: no exception reached the caller, runs: what each resolution did,   *)
(* W: the world left behind].                                              *)

WorldOf(R) ==
    [cnt |-> R.cnt, rc |-> R.rc, fk |-> R.fk, rnd |-> R.rnd,
     ys |-> R.ys, dr |-> R.dr, ms |-> R.ms, depth |-> R.depth, calls |-> R.calls]

RunLog(ov, ok, R) ==
    [ov |-> ov, ok |-> ok, raised |-> R.err, out |-> R.resolved,
     trace |-> R.trace, lazy |-> R.lazy]

(* The "init" strategy calls the model class with attrs as keywords: dict  *)
(* accepts any keywords, a dataclass exactly its fields                    *)
InitAccepts(shape, attrs) ==
    shape = "dict" \/
    DOMAIN attrs = {TypeHints(shape)[i].name : i \in 1..Len(TypeHints(shape))}

(* Binding the caller's keywords to **overrides: a keyword that names a    *)
(* positional parameter of the method is a TypeError at the call           *)
BindsKeywords(params, ov) == OvKeys(ov) \cap params = {}

(* What an entry point leaves after the resolution R: ok tells whether    *)
(* it returned to its caller                                               *)
Outcome(ov, ok, R) == [ok |-> ok, runs |-> <<RunLog(ov, ok, R)>>, W |-> WorldOf(R)]

(* the "init" strategy: the model class called with the attrs of R *)
Construct(shape, ov, R) ==
    Outcome(ov, ~R.err /\ InitAccepts(shape, R.resolved), R)

BuildRun(ms, m, ov, W) ==
    IF ~BindsKeywords({"cls"}, ov)
    THEN [ok |-> FALSE, runs |-> << >>, W |-> W]
    ELSE Construct(ms[m].model_class, ov, ResolveFields(ms, m, ov, W))

(* A variant of BuildBatchFrom with a slip in it: a build that fails ends  *)
(* the batch, which returns the records built so far.                      *)
RECURSIVE BuildBatchFromKeepsPartial(_, _, _, _, _)
BuildBatchFromKeepsPartial(ms, m, ov, count, acc) ==
    IF count <= 0 THEN acc
    ELSE LET b == BuildRun(ms, m, ov, acc.W)
         IN IF ~b.ok THEN [ok |-> TRUE, runs |-> acc.runs \o b.runs, W |-> b.W]
            ELSE BuildBatchFromKeepsPartial(ms, m, ov, count - 1,
                    [ok |-> b.ok, runs |-> acc.runs \o b.runs, W |-> b.W])

(* build_batch: one build per element of range(count), same overrides *)
Collected(acc, b) == [ok |-> b.ok, runs |-> acc.runs \o b.runs, W |-> b.W]

RECURSIVE BuildBatchFrom(_, _, _, _, _)
BuildBatchFrom(ms, m, ov, count, acc) ==
    IF count <= 0 \/ ~acc.ok THEN acc
    ELSE BuildBatchFrom(ms, m, ov, count - 1,
                        Collected(acc, BuildRun(ms, m, ov, acc.W)))

BuildBatchRun(ms, m, count, ov, W) ==
    IF ~BindsKeywords({"cls", "count"}, ov)
    THEN [ok |-> FALSE, runs |-> << >>, W |-> W]
    ELSE BuildBatchFrom(ms, m, ov, count, [ok |-> TRUE, runs |-> << >>, W |-> W])

(* Nested models: descriptors.py, SubFactoryDescriptor.resolve and         *)
(* SubListFactoryDescriptor.resolve.  calls is the log of every call made  *)
(* during one entry-point call: the resolve of a descriptor (its kind),    *)
(* the call of a function given as factory ("ref"), and the exceptions     *)
(* raised outside a descriptor's own code.                                 *)
Logged(m, e, what, R) ==
    [R EXCEPT !.calls = Append(@, [m |-> m, name |-> e.name, kind |-> what,
                                   depth |-> R.depth])]
Raised(m, e, what, R) == [Logged(m, e, what, R) EXCEPT !.err = TRUE]

(* if callable(factory): factory = factory() -- a function is called, a    *)
(* class is instantiated; build and build_batch are class methods of both  *)
FactoryCalled(m, e, R) == IF e.d.s = "lambda" THEN Logged(m, e, "ref", R) ELSE R

(* The world a nested build starts in, one frame deeper *)
Entered(R) == [WorldOf(R) EXCEPT !.depth = @ + 1]

(* The value a nested call returned: a record, or the list of records *)
SubValue(kind, b) ==
    IF ~b.ok THEN NoneVal
    ELSE IF kind = "sub" THEN [t |-> "record", v |-> b.runs[1].out]
    ELSE [t |-> "list", v |-> [i \in 1..Len(b.runs) |-> b.runs[i].out]]

(* A variant of Left with a slip in it: when the nested call failed, the   *)
(* counters and random states are put back as they were before it.        *)
LeftRollsBack(kind, R, b) ==
    IF ~b.ok THEN [R EXCEPT !.calls = b.W.calls, !.err = TRUE, !.val = NoneVal]
    ELSE [R EXCEPT !.cnt = b.W.cnt, !.rc = b.W.rc, !.fk = b.W.fk, !.rnd = b.W.rnd,
                   !.ys = b.W.ys, !.dr = b.W.dr, !.calls = b.W.calls,
                   !.err = FALSE, !.val = SubValue(kind, b)]

(* Back in the parent's resolve after the nested call b *)
Left(kind, R, b) ==
    [R EXCEPT !.cnt = b.W.cnt, !.rc = b.W.rc, !.fk = b.W.fk, !.rnd = b.W.rnd,
              !.ys = b.W.ys, !.dr = b.W.dr, !.calls = b.W.calls,
              !.err = ~b.ok, !.val = SubValue(kind, b)]

(* A name the function refers to that is not bound yet is a NameError; a   *)
(* nested build for which the stack has no room is a RecursionError.       *)
(* A variant of SubFactoryResolve with a slip in it: a nested build made   *)
(* from inside a nested build is refused as a recursion.                  *)
SubFactoryResolveOneLevel(m, e, R) ==
    IF e.d.n > Len(R.ms) THEN Raised(m, e, "NameError", R)
    ELSE IF R.depth >= 1 THEN Raised(m, e, "RecursionError", R)
    ELSE Left(e.d.kind, R,
              IF e.d.kind = "sub"
              THEN BuildRun(R.ms, e.d.n, OvDict(e.d.attrs), Entered(R))
              ELSE BuildBatchRun(R.ms, e.d.n, e.d.count, OvDict(e.d.attrs),
                                 Entered(R)))

SubFactoryResolve(m, e, R) ==
    IF e.d.n > Len(R.ms) THEN Raised(m, e, "NameError", R)
    ELSE IF R.depth >= MaxDepth THEN Raised(m, e, "RecursionError", R)
    ELSE Left(e.d.kind, R,
              IF e.d.kind = "sub"
              THEN BuildRun(R.ms, e.d.n, OvDict(e.d.attrs), Entered(R))
              ELSE BuildBatchRun(R.ms, e.d.n, e.d.count, OvDict(e.d.attrs),
                                 Entered(R)))

Dispatch(m, e, R) ==
    CASE e.d.kind = "static" -> StaticResolve(e, R)
      [] e.d.kind = "seq" -> SequenceResolve(e, R)
      [] e.d.kind = "lazy" -> LazyResolve(e, R)
      [] e.d.kind = "gen" -> GenResolve(e, R)
      [] e.d.kind = "auto" -> AutoResolve(m, e, R)
      [] e.d.kind \in {"sub", "sublist"} ->
            SubFactoryResolve(m, e, FactoryCalled(m, e, R))
      [] OTHER -> IgnoreResolve(e, R)

DescriptorResolve(m, e, R) == Dispatch(m, e, Logged(m, e, e.d.kind, R))

(* attrs.update(overrides or {}) *)
RECURSIVE UpdateLoop(_, _, _)
UpdateLoop(ov, i, R) ==
    IF i > Len(ov) THEN R
    ELSE UpdateLoop(ov, i + 1, Written(R, 2, ov[i].name, ov[i].val))

Updated(ov, R) == IF R.err THEN R ELSE UpdateLoop(ov, 1, R)
Returned(ov, R) == Outcome(ov, ~R.err, R)

ToDictRun(ms, m, ov, W) ==
    Returned(ov, Updated(ov, ResolveFields(ms, m, << >>, W)))

(* _jsonify on a leaf: str, int, None are kept; a date becomes its         *)
(* isoformat() string                                                      *)
Jsonify(val) == IF val.t = "date" THEN StrVal(val.v) ELSE val

JsonifyAll(out) == [k \in DOMAIN out |-> Jsonify(out[k])]
JsonifyRun(r) ==
    IF ~r.ok THEN r ELSE [r EXCEPT !.runs[1].out = JsonifyAll(@)]

ToJsonDictRun(ms, m, ov, W) == JsonifyRun(ToDictRun(ms, m, ov, W))

----------------------------------------------------------------------------
(* The state machine *)

Init ==
    /\ models = << >>
    /\ counter = [id \in {} |-> 0]
    /\ rcount = [id \in {} |-> 0]
    /\ faker = << >>
    /\ soloFaker = << >>
    /\ rnd = SeedState(GlobalSeed)
    /\ soloRnd = << >>
    /\ nOps = 0
    /\ last = [op |-> "start"]
    /\ threads = << >>

RECURSIVE Ancestors(_, _)
Ancestors(ms, i) ==
    Range(ms[i].bases) \cup UNION {Ancestors(ms, b) : b \in Range(ms[i].bases)}

(* The base lists type.__new__ accepts: existing classes, none twice, none *)
(* placed before one of its own subclasses (no consistent MRO otherwise)   *)
BaseLists(ms) ==
    {bs \in UNION {[1..k -> 1..Len(ms)] : k \in 0..MaxBases} :
        \A i, j \in 1..Len(bs) :
            i < j => bs[i] # bs[j] /\ bs[i] \notin Ancestors(ms, bs[j])}

(* class <name>(<bases>): <body>  -- FactoryMeta.__new__ *)
DefineModel(cdef, bases) ==
    LET self == Len(models) + 1
        seqs == {<<self, cdef.body[k].name>> : k \in
                    {k \in 1..Len(cdef.body) : cdef.body[k].d.kind = "seq"}}
        start(id) == (CHOOSE k \in 1..Len(cdef.body) : cdef.body[k].name = id[2])
    IN
    /\ bases \in BaseLists(models)
    /\ IF cdef.shape # "" /\ SmartExtractorRaises(cdef.shape)
       THEN /\ last' = [op |-> "define", ok |-> FALSE, m |-> 0, shape |-> cdef.shape]
            /\ UNCHANGED <<models, counter, rcount, faker, soloFaker, soloRnd>>
       ELSE /\ models' = Append(models,
                    [body |-> cdef.body, bases |-> bases,
                     model_class |-> ModelClass(cdef),
                     decls |-> Declarations(models, self, cdef, bases)])
            /\ counter' = [id \in seqs |-> cdef.body[start(id)].d.n] @@ counter
            /\ rcount' = [id \in seqs |-> 0] @@ rcount
            /\ faker' = Append(faker, SeedState(SeedOf(cdef)))
            /\ soloFaker' = Append(soloFaker, SeedState(SeedOf(cdef)))
            /\ soloRnd' = Append(soloRnd, SeedState(GlobalSeed))
            /\ last' = [op |-> "define", ok |-> TRUE, m |-> self,
                        shape |-> cdef.shape]
    /\ UNCHANGED <<rnd, nOps, threads>>

World ==
    [cnt |-> counter, rc |-> rcount, fk |-> faker, rnd |-> rnd,
     ys |-> << >>, dr |-> << >>, ms |-> models, depth |-> 0, calls |-> << >>]

(* The world model m would run in had no other model been used *)
SoloWorld(m) == [World EXCEPT !.rnd = soloRnd[m], !.fk[m] = soloFaker[m]]

(* The effect of one entry-point call: r is its outcome in World, solo its *)
(* outcome in SoloWorld(m), ref the outcome of build(same overrides) in    *)
(* World.                                                                  *)
Commit(op, m, ov, r, solo, ref) ==
    /\ counter' = r.W.cnt
    /\ rcount' = r.W.rc
    /\ faker' = r.W.fk
    /\ rnd' = r.W.rnd
    /\ soloRnd' = [soloRnd EXCEPT ![m] = solo.W.rnd]
    /\ soloFaker' = [soloFaker EXCEPT ![m] = solo.W.fk[m]]
    /\ nOps' = nOps + 1
    /\ last' = [op |-> op, m |-> m, ov |-> ov, ok |-> r.ok, runs |-> r.runs,
                ys |-> r.W.ys, dr |-> r.W.dr, soloDr |-> solo.W.dr,
                calls |-> r.W.calls,
                ref |-> IF ref.runs = << >>
                        THEN [ok |-> FALSE, out |-> << >>, cnt |-> ref.W.cnt]
                        ELSE [ok |-> ~ref.runs[1].raised,
                              out |-> ref.runs[1].out, cnt |-> ref.W.cnt]]
    /\ UNCHANGED <<models, threads>>

Build(m, names) ==
    /\ nOps < MaxOps
    /\ \E r \in {BuildRun(models, m, OvDict(names), World)},
          solo \in {BuildRun(models, m, OvDict(names), SoloWorld(m))} :
            Commit("build", m, OvDict(names), r, solo, r)

BuildBatch(m, count, names) ==
    /\ nOps < MaxOps
    /\ \E r \in {BuildBatchRun(models, m, count, OvDict(names), World)},
          solo \in {BuildBatchRun(models, m, count, OvDict(names), SoloWorld(m))},
          ref \in {BuildRun(models, m, OvDict(names), World)} :
            Commit("build_batch", m, OvDict(names), r, solo, ref)

ToDict(m, names) ==
    /\ nOps < MaxOps
    /\ \E r \in {ToDictRun(models, m, OvDict(names), World)},
          solo \in {ToDictRun(models, m, OvDict(names), SoloWorld(m))},
          ref \in {BuildRun(models, m, OvDict(names), World)} :
            Commit("to_dict", m, OvDict(names), r, solo, ref)

ToJsonDict(m, names) ==
    /\ nOps < MaxOps
    /\ \E r \in {ToJsonDictRun(models, m, OvDict(names), World)},
          solo \in {ToJsonDictRun(models, m, OvDict(names), SoloWorld(m))},
          ref \in {BuildRun(models, m, OvDict(names), World)} :
            Commit("to_json_dict", m, OvDict(names), r, solo, ref)

Next ==
    \/ \E k \in 1..Len(Program) :
            k = Len(models) + 1 /\ DefineModel(Program[k].def, Program[k].bases)
    \/ \E m \in 1..Len(models), names \in OverrideSets : Build(m, names)
    \/ \E m \in 1..Len(models), names \in OverrideSets, count \in {0, MaxBatch} :
            BuildBatch(m, count, names)
    \/ \E m \in 1..Len(models), names \in OverrideSets : ToDict(m, names)
    \/ \E m \in 1..Len(models), names \in OverrideSets : ToJsonDict(m, names)

Spec == Init /\ [][Next]_vars

(* Model definition alone, with longer inheritance chains *)
NextMerge ==
    \E cdef \in ClassDefs, bases \in BaseLists(models) :
        Len(models) < MaxChain /\ DefineModel(cdef, bases)

SpecMerge == Init /\ [][NextMerge]_vars

----------------------------------------------------------------------------
(* Auto-inference alone (specification SpecAuto): one AutoDescriptor of    *)
(* each name and annotation, resolved by the first loop of _resolve with   *)
(* a freshly seeded faker.                                                 *)

AutoNames ==
    {"id", "Pk", "uid", "email", "E_Mail", "first_name", "age", "birth_date",
     "tags", "something", "port", "_traits", "name"}
AutoTypes ==
    {"int", "str", "float", "bool", "datetime", "date", "time", "Decimal",
     "UUID", "bytes", "object", "list", "dict", "list[int]", "list[str]",
     "dict[str, int]", "Optional[str]", "Optional[int]", "Optional[date]",
     "Optional[object]", "Optional[list[int]]", "Optional[dict[str, int]]",
     "Union[int, str]"}

AutoWorld == [World EXCEPT !.fk = <<SeedState(GlobalSeed)>>]

AutoInferRun(name, type) ==
    EagerLoop(1, <<[name |-> name, owner |-> 0, d |-> AutoDescriptor(type)]>>,
              << >>, 1, Start(AutoWorld))

AutoInfer(name, type) ==
    /\ last' = [op |-> "auto", name |-> name, type |-> type,
                gen |-> AutoGenerator(name, type).gen,
                named |-> AutoGenerator(name, type).named,
                raised |-> AutoInferRun(name, type).err,
                out |-> AutoInferRun(name, type).resolved]
    /\ UNCHANGED <<models, counter, faker, rnd, rcount, soloRnd, soloFaker, nOps,
                   threads>>

NextAuto == \E name \in AutoNames, type \in AutoTypes : AutoInfer(name, type)

SpecAuto == Init /\ [][NextAuto]_vars

----------------------------------------------------------------------------
(* The partial record view alone (specification SpecProxy): one            *)
(* resolution of a class with constants, a deferred field z given one of   *)
(* the functions below, and a deferred field w declared after it.          *)

ProxyKeys == <<"a", "b", "c", "id">>
IndexOfKey(key) == CHOOSE i \in 1..Len(ProxyKeys) : ProxyKeys[i] = key
ProxyFunctions ==
    {LazyDescriptor(name) :
        name \in {"a", "b", "id", "w", "nope", "items", "keys", "update",
                   "_data"}}
    \cup {LazyCalls(method) : method \in {"update", "clear", "pop", "_data"}}

(* class ...: <key> = <position of key>, for the keys chosen; z; w *)
ProxyBody(keys, f) ==
    [i \in 1..Len(SelectSeq(ProxyKeys, LAMBDA k : k \in keys)) |->
        Decl(SelectSeq(ProxyKeys, LAMBDA k : k \in keys)[i],
             StaticValue(IntVal(IndexOfKey(
                 SelectSeq(ProxyKeys, LAMBDA k : k \in keys)[i]))))]
    \o << Decl("z", f), Decl("w", LazyDescriptor("")) >>

ProxyRun(keys, f) ==
    ResolveFields(<<[decls |-> CollectDefinitions(1, ProxyBody(keys, f))]>>,
                  1, << >>, World)

ProxyResolve(keys, f) ==
    /\ last' = [op |-> "proxy", keys |-> keys, f |-> f,
                raised |-> ProxyRun(keys, f).err,
                out |-> ProxyRun(keys, f).resolved]
    /\ UNCHANGED <<models, counter, faker, rnd, rcount, soloRnd, soloFaker, nOps,
                   threads>>

NextProxy ==
    \E keys \in SUBSET Range(ProxyKeys), f \in ProxyFunctions :
        ProxyResolve(keys, f)

SpecProxy == Init /\ [][NextProxy]_vars

----------------------------------------------------------------------------
(* Batches (specification SpecBatch): two models whose fields are named    *)
(* like parameters of the entry points, one of them with a sequence that   *)
(* runs out, and callers that override those fields.                       *)

TicketDef ==
    [shape |-> "", seed |-> 0, body |-> <<
        Decl("id", SequenceDescriptor("none", 1)),
        Decl("count", StaticValue(IntVal(0))),
        Decl("cls", StaticValue(StrVal(0))) >>]
SlotDef ==
    [shape |-> "", seed |-> 0, body |-> <<
        Decl("id", SequenceDescriptor("none", 1)),
        Decl("slot", SequenceDescriptor("item", 1)),
        Decl("count", StaticValue(IntVal(0))) >>]
BatchProgram == <<TicketDef, SlotDef>>
BatchOverrideSets == { << >>, <<"id">>, <<"count">>, <<"cls">>, <<"slot", "self">> }

NextBatch ==
    \/ \E k \in 1..Len(BatchProgram) :
            k = Len(models) + 1 /\ DefineModel(BatchProgram[k], << >>)
    \/ \E m \in 1..Len(models), names \in BatchOverrideSets : Build(m, names)
    \/ \E m \in 1..Len(models), names \in BatchOverrideSets,
           count \in -1..MaxBatch : BuildBatch(m, count, names)
    \/ \E m \in 1..Len(models), names \in BatchOverrideSets : ToDict(m, names)

SpecBatch == Init /\ [][NextBatch]_vars

----------------------------------------------------------------------------
(* Nested models (specification SpecSub): up to three class statements.    *)
(* The first is a leaf, a leaf whose sequence runs out, or a model that    *)
(* refers forward to the second; the second holds a list of the first; the *)
(* third holds one of the second.                                          *)

LeafDef ==
    [shape |-> "", seed |-> 0, body |-> <<
        Decl("secret", IgnoreDescriptor),
        Decl("id", SequenceDescriptor("none", 1)),
        Decl("count", StaticValue(IntVal(0))) >>]
RunsOutDef ==
    [shape |-> "", seed |-> 0, body |-> <<
        Decl("id", SequenceDescriptor("none", 1)),
        Decl("slot", SequenceDescriptor("item", 1)) >>]
TwinDef(count) ==
    [shape |-> "", seed |-> 0, body |-> <<
        Decl("id", SequenceDescriptor("none", 1)),
        Decl("kids", SubListFactoryDescriptor(2, "lambda", count, << >>)) >>]
PairDef(ref, count, attrs) ==
    [shape |-> "", seed |-> 0, body |-> <<
        Decl("id", SequenceDescriptor("none", 1)),
        Decl("kids", SubListFactoryDescriptor(1, ref, count, attrs)),
        Decl("pin", GenInt) >>]
RootDef ==
    [shape |-> "", seed |-> 0, body |-> <<
        Decl("secret", IgnoreDescriptor),
        Decl("kid", SubFactoryDescriptor(2, "class", <<"id">>)),
        Decl("id", SequenceDescriptor("none", 1)) >>]

SubDefs(k) ==
    CASE k = 1 -> {LeafDef, RunsOutDef} \cup {TwinDef(c) : c \in 0..1}
      [] k = 2 -> {PairDef("class", c, << >>) : c \in 0..MaxBatch}
                  \cup {PairDef("lambda", c, <<"id">>) : c \in 0..MaxBatch}
                  \cup {PairDef("class", c, <<"count">>) : c \in 0..MaxBatch}
      [] k = 3 -> {RootDef}
      [] OTHER -> {}
SubOverrideSets == { << >>, <<"id">>, <<"secret", "kids">> }

NextSub ==
    \/ \E cdef \in SubDefs(Len(models) + 1) : DefineModel(cdef, << >>)
    \/ \E names \in SubOverrideSets :
            models # << >> /\ Build(Len(models), names)
    \/ models # << >> /\ Build(1, << >>)
    \/ \E count \in 0..MaxBatch :
            models # << >> /\ BuildBatch(Len(models), count, << >>)
    \/ models # << >> /\ ToDict(Len(models), << >>)

SpecSub == Init /\ [][NextSub]_vars

----------------------------------------------------------------------------
(* The generator facade alone (specification SpecGen): a descriptor is     *)
(* constructed by one operation of _Gen and then resolved any number of    *)
(* times.  Argument a is the length, n, k or stdev of the operation, b the *)
(* number of characters of the alphabet; populations have three members.   *)

GenOps ==
    {"int", "float", "decimal", "normal", "string", "bytes", "bool", "choice",
     "sample", "choices", "uuid4"}

(* The argument checks of normal, string and bytes.  First a variant with  *)
(* a slip in it: string does not check the alphabet.                       *)
GenRaisesNoAlphabetCheck(op, a, b) ==
    CASE op = "normal" -> a < 0
      [] op = "string" -> a < 0
      [] op = "bytes" -> a < 0
      [] OTHER -> FALSE

GenRaises(op, a, b) ==
    CASE op = "normal" -> a < 0
      [] op = "string" -> a < 0 \/ (b = 0 /\ a > 0)
      [] op = "bytes" -> a < 0
      [] OTHER -> FALSE

(* The CallDescriptor each operation returns: the function it wraps, the   *)
(* number of draws a call of it makes from `random`, the value bound into  *)
(* it.  decimal draws its value while constructing and wraps               *)
(* value.quantize.                                                         *)
GenDescriptor(op, a, s) ==
    CASE op = "decimal" -> [func |-> "value.quantize", k |-> 0, value |-> RngNext(s)]
      [] op = "string" -> [func |-> "random.choices", k |-> a, value |-> 0]
      [] op = "choices" -> [func |-> "random.choices", k |-> a, value |-> 0]
      [] op = "sample" -> [func |-> "random.sample", k |-> a, value |-> 0]
      [] op = "bytes" -> [func |-> "random.randbytes",
                          k |-> IF a > 0 THEN 1 ELSE 0, value |-> 0]
      [] op = "uuid4" -> [func |-> "uuid.uuid4", k |-> 0, value |-> 0]
      [] op = "int" -> [func |-> "random.randint", k |-> 1, value |-> 0]
      [] op = "float" -> [func |-> "random.uniform", k |-> 1, value |-> 0]
      [] op = "normal" -> [func |-> "random.gauss", k |-> 1, value |-> 0]
      [] OTHER -> [func |-> "random.choice", k |-> 1, value |-> 0]
GenStateAfter(op, s) == IF op = "decimal" THEN RngNext(s) ELSE s

RECURSIVE RngIter(_, _)
RngIter(s, k) == IF k <= 0 THEN s ELSE RngIter(RngNext(s), k - 1)

(* CallDescriptor.resolve: self._func called with the bound arguments;     *)
(* random.sample raises for a negative k                                   *)
CallResolve(d, s) ==
    IF d.func = "random.sample" /\ d.k < 0
    THEN [raised |-> TRUE, rnd |-> s, val |-> 0]
    ELSE IF d.func = "value.quantize"
    THEN [raised |-> FALSE, rnd |-> s, val |-> d.value]
    ELSE [raised |-> FALSE, rnd |-> RngIter(s, d.k), val |-> RngIter(s, d.k)]

GenConstruct(op, a, b) ==
    /\ IF GenRaises(op, a, b)
       THEN /\ last' = [op |-> "construct", gen |-> op, a |-> a, b |-> b,
                        raised |-> TRUE]
            /\ rnd' = rnd
       ELSE /\ last' = [op |-> "construct", gen |-> op, a |-> a, b |-> b,
                        raised |-> FALSE, d |-> GenDescriptor(op, a, rnd)]
            /\ rnd' = GenStateAfter(op, rnd)
    /\ UNCHANGED <<models, counter, faker, rcount, soloRnd, soloFaker, nOps,
                   threads>>

GenResolveCall ==
    /\ last.op \in {"construct", "resolve"} /\ ~last.raised
    /\ last' = [op |-> "resolve", gen |-> last.gen, a |-> last.a, b |-> last.b,
                raised |-> CallResolve(last.d, rnd).raised, d |-> last.d,
                val |-> CallResolve(last.d, rnd).val]
    /\ rnd' = CallResolve(last.d, rnd).rnd
    /\ UNCHANGED <<models, counter, faker, rcount, soloRnd, soloFaker, nOps,
                   threads>>

NextGen ==
    \/ \E op \in GenOps, a \in -1..MaxArg, b \in 0..MaxArg : GenConstruct(op, a, b)
    \/ GenResolveCall

SpecGen == Init /\ [][NextGen]_vars

----------------------------------------------------------------------------
(* Properties of resolution (specification Spec) *)

Ops == {"build", "build_batch", "to_dict", "to_json_dict"}
IsOp(l) == l.op \in Ops
KindOf(m, name) ==
    IF name \in KeysOf(models[m].decls)
    THEN Get(models[m].decls, name).d.kind ELSE "undeclared"
NamesIn(entries) == [i \in 1..Len(entries) |-> entries[i].name]

(* C1: the map an entry point returns has no key whose declaration is the  *)
(* Excluded marker, also when the key is among the overrides.              *)
C1_ExcludedNeverInOutput ==
    IsOp(last) =>
        \A i \in 1..Len(last.runs) :
            last.runs[i].ok =>
                \A k \in DOMAIN last.runs[i].out : KindOf(last.m, k) # "ignore"

(* The trace C2 prescribes for declarations decls and overrides ov *)
IsEager(ov, e) == e.d.kind \notin {"lazy", "ignore"} /\ e.name \notin OvKeys(ov)
IsDeferred(ov, e) == e.d.kind = "lazy" /\ e.name \notin OvKeys(ov)
C2_Eager(decls, ov) == NamesIn(SelectSeq(decls, LAMBDA e : IsEager(ov, e)))
C2_Deferred(decls, ov) == NamesIn(SelectSeq(decls, LAMBDA e : IsDeferred(ov, e)))
C2_Phase(ph, names) == [i \in 1..Len(names) |-> [ph |-> ph, name |-> names[i]]]

(* C2: in every resolution that completes, the writes are the eager fields *)
(* in declaration order, then every override, then the deferred fields not *)
(* overridden in declaration order; the j-th deferred function runs seeing *)
(* exactly the eager names, the override names and the j-1 deferred names  *)
(* before it.                                                              *)
C2_ThreePhases ==
    IsOp(last) =>
        \A i \in 1..Len(last.runs) :
            LET run == last.runs[i]
                decls == models[last.m].decls
                eager == C2_Eager(decls, run.ov)
                deferred == C2_Deferred(decls, run.ov)
            IN ~run.raised =>
                /\ run.trace = C2_Phase(1, eager) \o C2_Phase(2, NamesIn(run.ov))
                                    \o C2_Phase(3, deferred)
                /\ NamesIn(run.lazy) = deferred
                /\ \A j \in 1..Len(run.lazy) :
                        run.lazy[j].saw = Range(eager) \cup OvKeys(run.ov)
                                            \cup {deferred[h] : h \in 1..(j - 1)}

(* C3: no entry point invokes the function of a Deferred descriptor for a  *)
(* field that is among the overrides.                                      *)
C3_NoDeferredCallForOverride ==
    IsOp(last) =>
        \A i \in 1..Len(last.runs) : \A j \in 1..Len(last.runs[i].lazy) :
            last.runs[i].lazy[j].name \notin OvKeys(last.ov)

(* C4: from the same state, to_dict(overrides) succeeds exactly when the   *)
(* resolution of build(overrides) does, returns the map build constructs   *)
(* its instance from, and leaves the same counters behind.                 *)
C4_ToDictIsBuildView ==
    last.op = "to_dict" =>
        /\ last.ok = last.ref.ok
        /\ last.ok => /\ last.runs[1].out = last.ref.out
                      /\ counter = last.ref.cnt

(* The start and the format a Sequence instance was constructed with *)
SeqDecl(id) ==
    models[id[1]].body[CHOOSE k \in 1..Len(models[id[1]].body) :
                            models[id[1]].body[k].name = id[2]].d
C5_Expected(format, k) ==
    CASE format = "func" -> [t |-> "int", v |-> 10 * k]
      [] format = "str" -> [t |-> "str", v |-> k]
      [] OTHER -> [t |-> "int", v |-> k]

(* C5: the n-th resolution of a Sequence instance with start s yields      *)
(* s + n - 1, passed through its format string or function, and an         *)
(* operation leaves the counter of every instance it did not resolve as it *)
(* was.                                                                    *)
C5_SequenceNth ==
    [][IsOp(last') =>
        /\ \A i \in 1..Len(last'.ys) :
              last'.ys[i].val =
                  C5_Expected(SeqDecl(last'.ys[i].id).s,
                              SeqDecl(last'.ys[i].id).n + last'.ys[i].ord - 1)
        /\ \A id \in DOMAIN counter :
              (\A i \in 1..Len(last'.ys) : last'.ys[i].id # id)
                  => counter'[id] = counter[id]]_vars

C5_Witness ==
    /\ IsOp(last)
    /\ \E i \in 1..Len(last.ys) :
          /\ last.ys[i].ord >= 2
          /\ SeqDecl(last.ys[i].id).s # "none"
          /\ \E id \in DOMAIN counter :
                id # last.ys[i].id /\ rcount[id] = 1

(* C6: the counter of every Sequence instance is its start plus the number *)
(* of times it has been resolved, whatever operations ran, failed or not,  *)
(* and whatever models were defined since.                                 *)
C6_CounterIsStartPlusResolutions ==
    \A id \in DOMAIN counter : counter[id] = SeqDecl(id).n + rcount[id]

C6_Witness ==
    /\ IsOp(last) /\ ~last.ok
    /\ \E i \in 1..Len(last.ys) : rcount[last.ys[i].id] >= 2
    /\ Len(models) = Len(Program) - 1

SeqIdsOf(m) ==
    {<<models[m].decls[i].owner, models[m].decls[i].name>> :
        i \in {i \in 1..Len(models[m].decls) : models[m].decls[i].d.kind = "seq"}}

C8_RandomIndependent == IsOp(last) /\ last.ok => last.dr = last.soloDr

----------------------------------------------------------------------------
(* Properties of the declaration merge (specification SpecMerge) *)

(* The inheritance chain of model m, most specific first: Python's C3      *)
(* linearisation of the class and its bases.                               *)
RECURSIVE C3Merge(_)
C3Merge(lists) ==
    LET ne == SelectSeq(lists, LAMBDA l : l # << >>)
        good(i) == \A j \in 1..Len(ne) : Head(ne[i]) \notin Range(Tail(ne[j]))
    IN IF ne = << >> THEN << >>
       ELSE LET i0 == CHOOSE i \in 1..Len(ne) :
                        good(i) /\ \A h \in 1..(i - 1) : ~good(h)
                c == Head(ne[i0])
            IN <<c>> \o C3Merge([j \in 1..Len(ne) |->
                            IF Head(ne[j]) = c THEN Tail(ne[j]) ELSE ne[j]])

RECURSIVE Mro(_)
Mro(m) ==
    <<m>> \o C3Merge([k \in 1..Len(models[m].bases) |-> Mro(models[m].bases[k])]
                        \o <<models[m].bases>>)

Declares(a, name) == \E k \in 1..Len(models[a].body) : models[a].body[k].name = name
MostDerived(m, name) ==
    Mro(m)[CHOOSE i \in 1..Len(Mro(m)) :
               /\ Declares(Mro(m)[i], name)
               /\ \A h \in 1..(i - 1) : ~Declares(Mro(m)[h], name)]

(* C9: the declaration map of a model has every field explicitly declared  *)
(* by any model of its inheritance chain, at any depth, and holds for it    *)
(* the descriptor of the most-derived declaration.                          *)
C9_EveryAncestorMerged ==
    \A m \in 1..Len(models) : \A i \in 1..Len(Mro(m)) :
        \A k \in 1..Len(models[Mro(m)[i]].body) :
            LET name == models[Mro(m)[i]].body[k].name
            IN /\ name \in KeysOf(models[m].decls)
               /\ Get(models[m].decls, name).owner = MostDerived(m, name)

(* The explicit names of the whole chain in first-seen order, walking it   *)
(* from least to most specific.                                            *)
RECURSIVE C10_FirstSeen(_, _)
C10_FirstSeen(chain, i) ==
    IF i = 0 THEN << >>
    ELSE DictUpdate(C10_FirstSeen(chain, i - 1),
                    CollectDefinitions(chain[Len(chain) + 1 - i],
                                       models[chain[Len(chain) + 1 - i]].body))

(* C10: the explicit names of a declaration map are iterated in first-seen *)
(* order across the chain: of two names in the map, the one first declared *)
(* earlier in the chain comes first.                                       *)
C10_FirstSeenOrder ==
    \A m \in 1..Len(models) :
        LET order == NamesIn(C10_FirstSeen(Mro(m), Len(Mro(m))))
            explicit == NamesIn(SelectSeq(models[m].decls,
                                          LAMBDA e : e.d.kind # "auto"))
        IN explicit = SelectSeq(order, LAMBDA x : x \in Range(explicit))

(* The names declared in the class body of m or of one of its direct bases *)
C11_Explicit(m) ==
    {models[m].body[k].name : k \in 1..Len(models[m].body)} \cup
    UNION {{models[b].body[k].name : k \in 1..Len(models[b].body)} :
                b \in Range(models[m].bases)}

(* C11: the declaration map of a model with a structured target shape has  *)
(* the explicit declarations and one AutoInferred descriptor, of the       *)
(* field's type, for each field of the shape not explicitly declared; an   *)
(* explicitly declared name of the shape keeps its explicit descriptor.    *)
C11_ExplicitPlusAuto ==
    \A m \in 1..Len(models) :
        models[m].model_class # "dict" =>
            LET decls == models[m].decls
                hints == TypeHints(models[m].model_class)
            IN /\ \A name \in C11_Explicit(m) :
                      /\ name \in KeysOf(decls)
                      /\ Get(decls, name).d.kind # "auto"
               /\ \A i \in 1..Len(hints) :
                      hints[i].name \notin C11_Explicit(m) =>
                          /\ hints[i].name \in KeysOf(decls)
                          /\ Get(decls, hints[i].name).d
                                = AutoDescriptor(hints[i].type)
               /\ \A i \in 1..Len(decls) :
                      decls[i].d.kind = "auto" =>
                          /\ decls[i].name \notin C11_Explicit(m)
                          /\ \E h \in 1..Len(hints) : hints[h].name = decls[i].name

----------------------------------------------------------------------------
(* Properties of auto-inference (specification SpecAuto) *)

(* The name of each field lowercased and without underscores, and each     *)
(* annotation with one Optional wrapper removed, as the table is specified *)
(* to see them                                                             *)
C12_NormalOf(name) ==
    CASE name = "id" -> <<"i", "d">>
      [] name = "Pk" -> <<"p", "k">>
      [] name = "uid" -> <<"u", "i", "d">>
      [] name = "email" -> <<"e", "m", "a", "i", "l">>
      [] name = "E_Mail" -> <<"e", "m", "a", "i", "l">>
      [] name = "first_name" -> <<"f", "i", "r", "s", "t", "n", "a", "m", "e">>
      [] name = "age" -> <<"a", "g", "e">>
      [] name = "birth_date" -> <<"b", "i", "r", "t", "h", "d", "a", "t", "e">>
      [] name = "tags" -> <<"t", "a", "g", "s">>
      [] name = "something" -> <<"s", "o", "m", "e", "t", "h", "i", "n", "g">>
      [] name = "port" -> <<"p", "o", "r", "t">>
      [] name = "_traits" -> <<"t", "r", "a", "i", "t", "s">>
      [] name = "name" -> <<"n", "a", "m", "e">>
C12_Strip(type) ==
    CASE type = "Optional[str]" -> "str"
      [] type = "Optional[int]" -> "int"
      [] type = "Optional[date]" -> "date"
      [] type = "Optional[object]" -> "object"
      [] type = "Optional[list[int]]" -> "list[int]"
      [] type = "Optional[dict[str, int]]" -> "dict[str, int]"
      [] OTHER -> type
C12_Entries(name, type) ==
    {i \in 1..Len(NameTable) :
        /\ C12_NormalOf(name) \in NameTable[i].names
        /\ C12_Strip(type) = NameTable[i].type}

(* C12: a name-based generator is picked exactly when an entry of the      *)
(* table has the normalized name and, as its type, the declared type with  *)
(* one Optional wrapper removed, and it is the first such entry's; a name  *)
(* with the wrong type is treated as unmatched; Optional[T] selects what   *)
(* T selects.                                                              *)
C12_NameAndTypeMatch ==
    last.op = "auto" =>
        LET hit == C12_Entries(last.name, last.type) IN
        /\ last.named <=> hit # {}
        /\ hit # {} =>
              last.gen = NameTable[CHOOSE i \in hit : \A j \in hit : i <= j].gen
        /\ last.gen = AutoGenerator(last.name, C12_Strip(last.type)).gen

C13_ListShaped ==
    {"list", "list[int]", "list[str]", "Optional[list[int]]"}
C13_MapShaped == {"dict", "dict[str, int]", "Optional[dict[str, int]]"}
C13_Scalars ==
    {"str", "int", "float", "bool", "datetime", "date", "time", "Decimal",
     "UUID", "bytes"}

(* C13: when no name pattern matches, a list-shaped annotation resolves to *)
(* the empty list, a map-shaped one to the empty map, and a scalar type of *)
(* the fallback table to a value of that type.                             *)
C13_TypeOnlyDefaults ==
    last.op = "auto" /\ C12_Entries(last.name, last.type) = {} =>
        /\ ~last.raised
        /\ last.type \in C13_ListShaped => last.out[last.name].t = "list"
        /\ last.type \in C13_MapShaped => last.out[last.name].t = "dict"
        /\ C12_Strip(last.type) \in C13_Scalars =>
                last.out[last.name].t = C12_Strip(last.type)

----------------------------------------------------------------------------
(* Properties of the partial record view (specification SpecProxy) *)

(* C15: a lookup through the view returns the value of the name when the   *)
(* name is in the resolved map so far, and raises otherwise, whatever the  *)
(* name: one not yet resolved (w), one that does not exist, one that is    *)
(* also an attribute of the map behind the view.                           *)
C15_LookupRaisesUnlessResolved ==
    last.op = "proxy" /\ last.f.n = 0 =>
        /\ last.raised <=> last.f.s \notin last.keys
        /\ ~last.raised => last.out["z"] = StrVal(IndexOfKey(last.f.s))

(* C16: after a resolution that completes, the entries written before the  *)
(* deferred function ran are all there with their values, and the only     *)
(* others are those of the deferred fields themselves.                     *)
C16_ViewIsReadOnly ==
    last.op = "proxy" /\ ~last.raised =>
        /\ DOMAIN last.out = last.keys \cup {"z", "w"}
        /\ \A k \in last.keys : last.out[k] = IntVal(IndexOfKey(k))

----------------------------------------------------------------------------
(* Properties of the generator facade (specification SpecGen) *)

(* The operations whose resolve has a value to draw from `random` *)
C17_Draws(op, a) ==
    CASE op \in {"string", "bytes", "sample", "choices"} -> a > 0
      [] op = "uuid4" -> FALSE
      [] OTHER -> TRUE

(* C17: constructing a descriptor leaves the state of the random source as *)
(* it was, and every resolve of an operation that has a value to draw      *)
(* draws it then.                                                          *)
C17_DrawsOnlyInResolve ==
    [][/\ last'.op = "construct" => rnd' = rnd
       /\ (last'.op = "resolve" /\ ~last'.raised /\ C17_Draws(last'.gen, last'.a))
              => rnd' # rnd]_vars

(* C18: construction fails exactly for string with a negative length or    *)
(* with an empty alphabet and a positive length, bytes with a negative n   *)
(* and normal with a negative stdev; it happens in the class body, with no *)
(* model built.                                                            *)
C18_ValidatesAtConstruction ==
    last.op = "construct" =>
        /\ last.raised <=>
              \/ last.gen = "string" /\ (last.a < 0 \/ (last.b = 0 /\ last.a > 0))
              \/ last.gen = "bytes" /\ last.a < 0
              \/ last.gen = "normal" /\ last.a < 0
        /\ nOps = 0 /\ models = << >>

C18_Witness ==
    /\ last.op = "construct" /\ last.raised
    /\ last.gen = "string" /\ last.b = 0 /\ last.a > 0

----------------------------------------------------------------------------
(* Properties of batches and failures (specification SpecBatch) *)

C19_Declared(m) ==
    {models[m].decls[i].name : i \in
        {i \in 1..Len(models[m].decls) : models[m].decls[i].d.kind # "ignore"}}

(* C19: an entry point that returns to its caller returns only records of  *)
(* resolutions in which nothing raised, each holding every declared        *)
(* field; when a descriptor raises in any build of a batch the caller gets *)
(* the error and none of the records built before it.                      *)
C19_NoPartialResult ==
    IsOp(last) =>
        /\ last.ok =>
              \A i \in 1..Len(last.runs) :
                  /\ ~last.runs[i].raised
                  /\ C19_Declared(last.m) \subseteq DOMAIN last.runs[i].out
        /\ (\E i \in 1..Len(last.runs) : last.runs[i].raised) => ~last.ok

C19_Witness ==
    /\ last.op = "build_batch" /\ ~last.ok
    /\ Len(last.runs) >= 2
    /\ ~last.runs[1].raised
    /\ last.runs[Len(last.runs)].raised

C20_Sequences(m, names) ==
    {i \in 1..Len(models[m].decls) :
        /\ models[m].decls[i].d.kind = "seq"
        /\ models[m].decls[i].name \notin Range(names)}

(* C20: build_batch(n, overrides) in which no build fails makes n builds,  *)
(* each with the overrides given, whatever their names; a Sequence field   *)
(* not overridden takes the n values that follow its counter, in build     *)
(* order, and leaves the counter n further.                                *)
C20_BatchIsNBuilds ==
    [][\A m \in 1..Len(models), names \in BatchOverrideSets, n \in 0..MaxBatch :
          (/\ BuildBatch(m, n, names)
           /\ \A i \in 1..Len(last'.runs) : last'.runs[i].ok)
          => /\ Len(last'.runs) = n
             /\ \A i \in 1..Len(last'.runs) : last'.runs[i].ov = OvDict(names)
             /\ \A k \in C20_Sequences(m, names) :
                   LET e == models[m].decls[k] IN
                   /\ counter'[DescId(e)] = counter[DescId(e)] + n
                   /\ \A i \in 1..Len(last'.runs) :
                         last'.runs[i].out[e.name] =
                             SequenceValue(e.d.s, counter[DescId(e)] + i - 1)]_vars

----------------------------------------------------------------------------
(* Target shapes at model definition (specification SpecShape): classes   *)
(* written with no shape parameter, with the builtin dict, with a         *)
(* dataclass and with a builtin scalar type, alone or derived from one    *)
(* another.                                                               *)

(* class DictFactory(Factory[dict]): id = seq() *)
DictDef ==
    [shape |-> "dict", seed |-> 0, body |-> <<
        Decl("id", SequenceDescriptor("none", 1)) >>]
(* class Named(<bases>): name = "..." *)
NamedDef ==
    [shape |-> "", seed |-> 0, body |-> <<
        Decl("name", StaticValue(StrVal(1))) >>]

ShapeDefs == {DictDef, NamedDef, MemberDef, UserDef, ScalarDef}

NextShape ==
    \E cdef \in ShapeDefs, bases \in BaseLists(models) :
        Len(models) < MaxChain /\ DefineModel(cdef, bases)

SpecShape == Init /\ [][NextShape]_vars

(* The shapes the specification calls map-like or structured *)
C22_MapLike(shape) == shape \in {"", "dict"}
C22_Structured(shape) == IsDataclass(shape) \/ HasAnnotations(shape)

(* C22: a class statement fails exactly when its target shape is neither   *)
(* the map type (left to default or written as the shape parameter) nor a  *)
(* structured type with introspectable fields.                             *)
C22_FailsIffUnsupported ==
    last.op = "define" =>
        (last.ok <=> C22_MapLike(last.shape) \/ C22_Structured(last.shape))

----------------------------------------------------------------------------
(* Declaration order and lazy fields (specification SpecOrder): a class    *)
(* whose lazy field z stands between an earlier and a later constant, an   *)
(* earlier and a later lazy field and an ignored field, and reads one of   *)
(* them.                                                                   *)

OrderReads == {"b", "y", "z", "a", "secret", "w", "nope"}
OrderDef(reads) ==
    [shape |-> "", seed |-> 0, body |-> <<
        Decl("b", StaticValue(IntVal(1))),
        Decl("y", LazyDescriptor("")),
        Decl("z", LazyDescriptor(reads)),
        Decl("a", StaticValue(IntVal(2))),
        Decl("secret", IgnoreDescriptor),
        Decl("w", LazyDescriptor("")) >>]
OrderOverrideSets ==
    { << >>, <<"a">>, <<"w">>, <<"secret">>, <<"z">>, <<"nope">>, <<"y", "b">> }

NextOrder ==
    \/ \E reads \in OrderReads : models = << >> /\ DefineModel(OrderDef(reads), << >>)
    \/ \E names \in OrderOverrideSets : models # << >> /\ Build(1, names)
    \/ \E names \in OrderOverrideSets : models # << >> /\ ToDict(1, names)

SpecOrder == Init /\ [][NextOrder]_vars

C23_Index(m, name) ==
    IF \E i \in 1..Len(models[m].decls) : models[m].decls[i].name = name
    THEN CHOOSE i \in 1..Len(models[m].decls) : models[m].decls[i].name = name
    ELSE 0
C23_Kind(m, name) ==
    IF C23_Index(m, name) = 0 THEN "" ELSE models[m].decls[C23_Index(m, name)].d.kind
(* The calls of lazy functions that read a field, in the builds of the     *)
(* last operation: the run, the lazy field and the name it reads           *)
C23_Reads ==
    IF last.op # "build" THEN {}
    ELSE {c \in [r : 1..Len(last.runs), z : 1..Len(models[last.m].decls)] :
            /\ models[last.m].decls[c.z].d.kind = "lazy"
            /\ models[last.m].decls[c.z].d.s # ""
            /\ \E k \in 1..Len(last.runs[c.r].lazy) :
                  last.runs[c.r].lazy[k].name = models[last.m].decls[c.z].name}
C23_Read(c) == models[last.m].decls[c.z].d.s
C23_Succeeded(c) == models[last.m].decls[c.z].name \in DOMAIN last.runs[c.r].out
C23_Readable(m, ov, z, name) ==
    \/ name \in OvKeys(ov)
    \/ C23_Kind(m, name) \notin {"", "lazy", "ignore"}
    \/ C23_Kind(m, name) = "lazy" /\ C23_Index(m, name) < z

----------------------------------------------------------------------------
(* Concurrent builds (specification SpecThreads): two threads, each        *)
(* running build_batch(count) of the same model with no lock.  The         *)
(* interpreter promises no atomicity across the statements of              *)
(* SequenceDescriptor.resolve: n = self._counter is one read of the        *)
(* attribute, self._counter += 1 a second read followed by a write, and    *)
(* another thread may run between any two of them.                         *)

(* class Ticketed(Factory): id = seq() *)
ThreadDef ==
    [shape |-> "", seed |-> 0, body |-> <<
        Decl("id", SequenceDescriptor("none", 1)) >>]
ThreadIds == {"t1", "t2"}
SharedId == <<1, "id">>

(* threading.Thread(target=Ticketed.build_batch, args=(count,)).start() *)
Spawn(t, count) ==
    /\ models # << >> /\ t \notin DOMAIN threads
    /\ threads' = (t :> [pc |-> "read", n |-> 0, tmp |-> 0, left |-> count,
                         got |-> << >>]) @@ threads
    /\ last' = [op |-> "spawn", t |-> t]
    /\ UNCHANGED <<models, counter, faker, rnd, rcount, soloRnd, soloFaker, nOps>>

(* n = self._counter *)
ThreadRead(t) ==
    /\ t \in DOMAIN threads /\ threads[t].pc = "read"
    /\ threads' = [threads EXCEPT ![t].n = counter[SharedId], ![t].pc = "load"]
    /\ last' = [op |-> "read", t |-> t]
    /\ UNCHANGED <<models, counter, faker, rnd, rcount, soloRnd, soloFaker, nOps>>

(* self._counter += 1, first half: the attribute is read *)
ThreadLoad(t) ==
    /\ t \in DOMAIN threads /\ threads[t].pc = "load"
    /\ threads' = [threads EXCEPT ![t].tmp = counter[SharedId], ![t].pc = "store"]
    /\ last' = [op |-> "load", t |-> t]
    /\ UNCHANGED <<models, counter, faker, rnd, rcount, soloRnd, soloFaker, nOps>>

(* A variant of Incremented with a slip in it: the step is two. *)
IncrementedByTwo(tmp) == tmp + 2
(* What the second half writes back *)
Incremented(tmp) == tmp + 1

(* self._counter += 1, second half: the sum is written; return n; build    *)
(* returns the record and build_batch goes on to its next build            *)
ThreadStore(t) ==
    /\ t \in DOMAIN threads /\ threads[t].pc = "store"
    /\ counter' = [counter EXCEPT ![SharedId] = Incremented(threads[t].tmp)]
    /\ rcount' = [rcount EXCEPT ![SharedId] = @ + 1]
    /\ threads' = [threads EXCEPT
            ![t].got = Append(@, threads[t].n),
            ![t].left = @ - 1,
            ![t].pc = IF threads[t].left > 1 THEN "read" ELSE "done"]
    /\ last' = [op |-> "store", t |-> t]
    /\ UNCHANGED <<models, faker, rnd, soloRnd, soloFaker, nOps>>

NextThreads ==
    \/ models = << >> /\ DefineModel(ThreadDef, << >>)
    \/ \E t \in ThreadIds, count \in 1..MaxBatch : Spawn(t, count)
    \/ \E t \in ThreadIds : ThreadRead(t)
    \/ \E t \in ThreadIds : ThreadLoad(t)
    \/ \E t \in ThreadIds : ThreadStore(t)

SpecThreads == Init /\ [][NextThreads]_vars

----------------------------------------------------------------------------
(* Properties of nested models (specification SpecSub) *)

C21_SubLists(m) ==
    {i \in 1..Len(models[m].decls) : models[m].decls[i].d.kind = "sublist"}
(* A model none of whose descriptors can raise *)
C21_Plain(m) ==
    /\ m \in 1..Len(models)
    /\ \A i \in 1..Len(models[m].decls) :
          \/ models[m].decls[i].d.kind \in {"static", "ignore"}
          \/ models[m].decls[i].d.kind = "seq" /\ models[m].decls[i].d.s = "none"
C21_RefCalls(l, m, name) ==
    Len(SelectSeq(l.calls, LAMBDA c :
            c.kind = "ref" /\ c.m = m /\ c.name = name /\ c.depth = 0))

(* C21: every build or to_dict of a model that has a field                 *)
(* sub_list(child, count=c, attrs) not overridden, the child having no     *)
(* descriptor that can raise, returns in that field a list of c child      *)
(* records that hold the attrs; the child's Sequence fields not in attrs   *)
(* take the c values that follow their counter and leave it c further;     *)
(* a function given as child is called once in that resolution.            *)
C21_ListOfFreshBuilds ==
    [][\A m \in 1..Len(models) : \A k \in C21_SubLists(m) :
          LET e == models[m].decls[k] IN
          (/\ last'.op \in {"build", "to_dict"} /\ last'.m = m
           /\ e.name \notin OvKeys(last'.ov)
           /\ C21_Plain(e.d.n))
          => /\ last'.ok
             /\ last'.runs[1].out[e.name].t = "list"
             /\ Len(last'.runs[1].out[e.name].v) = e.d.count
             /\ \A i \in 1..e.d.count :
                   /\ \A a \in Range(e.d.attrs) :
                         last'.runs[1].out[e.name].v[i][a] = OverrideValue
                   /\ "id" \notin Range(e.d.attrs) =>
                         last'.runs[1].out[e.name].v[i]["id"] =
                             IntVal(counter[<<e.d.n, "id">>] + i - 1)
             /\ "id" \notin Range(e.d.attrs) =>
                   counter'[<<e.d.n, "id">>] = counter[<<e.d.n, "id">>] + e.d.count
             /\ C21_RefCalls(last', m, e.name) = IF e.d.s = "lambda" THEN 1 ELSE 0]_vars

C24_Ignored(m) ==
    {models[m].decls[i].name : i \in
        {i \in 1..Len(models[m].decls) : models[m].decls[i].d.kind = "ignore"}}

(* C24: no call of build, build_batch or to_dict, for any model and        *)
(* overrides, and no build of a nested model made by them, calls resolve   *)
(* on an IgnoreDescriptor.                                                 *)
C24_IgnoreNeverResolved ==
    IsOp(last) => \A k \in 1..Len(last.calls) : last.calls[k].kind # "ignore"
(* an entry point that returned, of a model with an ignored field whose    *)
(* nested builds went through a model with an ignored field                *)
C24_Witness ==
    /\ IsOp(last) /\ last.ok /\ last.ov = << >>
    /\ C24_Ignored(last.m) # {}
    /\ \E k \in 1..Len(last.calls) :
          last.calls[k].depth > 0 /\ C24_Ignored(last.calls[k].m) # {}

(* The fields of model m, built with the names ovnames overridden, whose   *)
(* resolution makes at least one nested build                              *)
C27_Nests(m, ovnames) ==
    {i \in 1..Len(models[m].decls) :
        LET d == models[m].decls[i].d IN
        /\ d.kind \in {"sub", "sublist"}
        /\ models[m].decls[i].name \notin ovnames
        /\ d.count > 0 /\ d.n <= Len(models)
        /\ Range(d.attrs) \cap
              (IF d.kind = "sub" THEN {"cls"} ELSE {"cls", "count"}) = {}}
(* The longest chain of nested builds below a build of m, followed for at  *)
(* most fuel levels                                                        *)
RECURSIVE C27_Height(_, _, _)
C27_Height(m, ovnames, fuel) ==
    IF fuel = 0 \/ C27_Nests(m, ovnames) = {} THEN 0
    ELSE LET below(i) == C27_Height(models[m].decls[i].d.n,
                                    Range(models[m].decls[i].d.attrs), fuel - 1)
             deepest == CHOOSE i \in C27_Nests(m, ovnames) :
                            \A j \in C27_Nests(m, ovnames) : below(j) <= below(i)
         IN 1 + below(deepest)
C27_NestingDepth(m, ovnames) == C27_Height(m, ovnames, Len(models) + 1)
(* a chain longer than the number of models goes round a cycle *)
C27_Cyclic(m, ovnames) == C27_NestingDepth(m, ovnames) > Len(models)
C27_Resolved(l) == l.op \in {"build", "to_dict"} \/ (IsOp(l) /\ l.runs # << >>)
C27_Overflows(l) ==
    \E k \in 1..Len(l.calls) :
        l.calls[k].kind = "RecursionError" /\ l.calls[k].depth = MaxDepth
C27_OvNames(l) == IF l.op = "to_dict" THEN {} ELSE OvKeys(l.ov)

(* C27: an entry point called on a model whose nested builds form no cycle *)
(* (a sub_list of count 0 makes no nested build) ends without exhausting   *)
(* the stack, and no nested build is deeper than the longest chain of      *)
(* nested models; on a model whose nested builds form a cycle of positive  *)
(* counts nothing stops the recursion: it goes on until the stack is       *)
(* exhausted and no record is returned.                                    *)
C27_TerminatesIffAcyclic ==
    C27_Resolved(last) =>
        IF C27_Cyclic(last.m, C27_OvNames(last))
        THEN ~last.ok /\ C27_Overflows(last)
        ELSE /\ \A k \in 1..Len(last.calls) :
                   /\ last.calls[k].kind # "RecursionError"
                   /\ last.calls[k].depth <= C27_NestingDepth(last.m, C27_OvNames(last))
(* a build of a model that nests itself through another, both with         *)
(* positive counts, ended by the exhausted stack                           *)
C27_Witness ==
    /\ last.op = "build" /\ ~last.ok
    /\ C27_Cyclic(last.m, OvKeys(last.ov))
    /\ C27_Overflows(last)

----------------------------------------------------------------------------
(* Sequence counters across builds (specification SpecBatch) *)

C28_SeqFields(m) ==
    {i \in 1..Len(models[m].decls) : models[m].decls[i].d.kind = "seq"}

(* C28: a build or build_batch leaves the counter of every Sequence field  *)
(* named in its overrides where it was and never calls its resolve, and a  *)
(* build that resolves a Sequence field gets the value of the counter as   *)
(* it stands: the first build without the override gets the value the      *)
(* overridden builds did not take.                                         *)
C28_OverriddenTakesNoValue ==
    [][last'.op \in {"build", "build_batch"} =>
          \A k \in C28_SeqFields(last'.m) :
              LET e == models[last'.m].decls[k] IN
              IF e.name \in OvKeys(last'.ov)
              THEN /\ counter'[DescId(e)] = counter[DescId(e)]
                   /\ \A j \in 1..Len(last'.calls) : last'.calls[j].name # e.name
              ELSE (last'.runs # << >> /\ e.name \in DOMAIN last'.runs[1].out)
                      => last'.runs[1].out[e.name] =
                             SequenceValue(e.d.s, counter[DescId(e)])]_vars
(* a batch of two builds with id overridden has returned and the counter   *)
(* of id still stands at its start                                         *)
C28_Witness ==
    /\ last.op = "build_batch" /\ last.ok /\ Len(last.runs) = 2
    /\ OvKeys(last.ov) = {"id"}
    /\ last.runs[2].out["id"] = OverrideValue
    /\ counter[<<last.m, "id">>] = models[last.m].body[1].d.n
    /\ rcount[<<last.m, "id">>] = 0

----------------------------------------------------------------------------
(* Failed builds and Sequence counters (specification SpecSub) *)

C29_Resolves(l, id) ==
    Len(SelectSeq(l.calls, LAMBDA c :
            c.kind = "seq" /\ c.m = id[1] /\ c.name = id[2]))
C29_Values(l, name) ==
    [i \in 1..Len(SelectSeq(l.runs, LAMBDA r : r.ok)) |->
        SelectSeq(l.runs, LAMBDA r : r.ok)[i].out[name].v]

(* C29: an entry point, returning or raising, leaves every Sequence        *)
(* counter advanced by the number of times its resolve was called, in the  *)
(* model built and in the nested ones; the values a Sequence field not     *)
(* overridden takes in the builds that succeed lie between the counter     *)
(* before the call and the counter after it and increase from one build    *)
(* to the next.                                                            *)
C29_NoRollBack ==
    [][IsOp(last') =>
          /\ \A id \in DOMAIN counter :
                counter'[id] = counter[id] + C29_Resolves(last', id)
          /\ \A k \in C28_SeqFields(last'.m) :
                LET e == models[last'.m].decls[k]
                    vals == C29_Values(last', e.name)
                IN (e.name \notin OvKeys(last'.ov) /\ e.d.s = "none"
                        /\ last'.op \in {"build", "build_batch"}) =>
                      /\ \A i \in 1..Len(vals) :
                            counter[DescId(e)] <= vals[i] /\ vals[i] < counter'[DescId(e)]
                      /\ \A i, j \in 1..Len(vals) : i < j => vals[i] < vals[j]]_vars
(* a build that raised after resolving a Sequence field of its own and one *)
(* of a nested model, both counters standing where the resolves left them  *)
C29_Witness ==
    /\ last.op = "build" /\ ~last.ok
    /\ \E j, k \in 1..Len(last.calls) :
          /\ last.calls[j].kind = "seq" /\ last.calls[j].depth = 0
          /\ last.calls[k].kind = "seq" /\ last.calls[k].depth > 0
          /\ last.calls[k].m # last.m
          /\ counter[<<last.m, last.calls[j].name>>] > last.ref.out[last.calls[j].name].v
          /\ counter[<<last.calls[k].m, last.calls[k].name>>]
                = models[last.calls[k].m].body[1].d.n
                    + rcount[<<last.calls[k].m, last.calls[k].name>>]

----------------------------------------------------------------------------
(* Derived models and target shapes (specification SpecShape) *)

C30_Auto(m) ==
    {models[m].decls[i].name : i \in
        {i \in 1..Len(models[m].decls) : models[m].decls[i].d.kind = "auto"}}

(* C30: a class written with bases and no shape parameter has the map type *)
(* as its model class, whatever the model classes of its bases, and its    *)
(* declaration map has exactly the names declared in its own body and in   *)
(* the bodies of its direct bases, none of them auto-inferred.             *)
C30_DerivedIsMap ==
    (/\ last.op = "define" /\ last.ok /\ last.shape = ""
     /\ models[last.m].bases # << >>)
    => /\ models[last.m].model_class = "dict"
       /\ KeysOf(models[last.m].decls) = C11_Explicit(last.m)
       /\ C30_Auto(last.m) = {}
(* a class derived, with no shape parameter and an empty body, from a      *)
(* model of a dataclass that has an auto-inferred field                    *)
C30_Witness ==
    /\ last.op = "define" /\ last.ok /\ last.shape = ""
    /\ models[last.m].body = << >>
    /\ \E b \in Range(models[last.m].bases) :
          /\ IsDataclass(models[b].model_class)
          /\ C30_Auto(b) # {}
          /\ C30_Auto(b) \cap KeysOf(models[last.m].decls) = {}

----------------------------------------------------------------------------
(* Visits of one resolution (specification Spec) *)

C25_Resolves(name) ==
    Len(SelectSeq(last.calls, LAMBDA c :
            c.depth = 0 /\ c.name = name /\ c.kind = KindOf(last.m, name)))
C25_Draws == Len(SelectSeq(last.dr, LAMBDA d : d.src = "random"))
C25_GenCalls == Len(SelectSeq(last.calls, LAMBDA c : c.kind = "gen"))

(* C25: in every entry-point call that returns, the descriptor of each     *)
(* declared field is resolved once per resolution when the field is        *)
(* neither overridden nor ignored and never otherwise; no name is written  *)
(* twice to the resolved map of one resolution; and every resolve of a     *)
(* CallDescriptor calls its function, drawing a new value.                 *)
C25_NoFieldVisitedTwice ==
    (IsOp(last) /\ last.ok) =>
        /\ \A name \in KeysOf(models[last.m].decls) :
              C25_Resolves(name) =
                  IF name \in OvKeys(last.ov) \/ KindOf(last.m, name) = "ignore"
                  THEN 0 ELSE Len(last.runs)
        /\ \A i \in 1..Len(last.runs) :
              \A j, k \in 1..Len(last.runs[i].trace) :
                  j < k => last.runs[i].trace[j].name # last.runs[i].trace[k].name
        /\ C25_Draws = C25_GenCalls
        /\ \A j, k \in 1..Len(last.dr) : j < k => last.dr[j] # last.dr[k]

----------------------------------------------------------------------------
(* Concurrent builds (specification SpecThreads) *)

C26_Start == models[1].body[1].d.n

(* C26: with no lock around them, the counter of a Sequence field built by *)
(* two threads is never ahead of the number of increments made and every   *)
(* value handed out lies between the start and that number; a write puts  *)
(* back the value its thread read, incremented, whatever the counter has   *)
(* become since, so a thread advances the counter by one only when no      *)
(* other thread wrote between its read and its write.                      *)
C26_SeparateSteps ==
    [][models # << >> =>
        /\ counter'[SharedId] <= C26_Start + rcount'[SharedId]
        /\ \A t \in DOMAIN threads' : \A i \in 1..Len(threads'[t].got) :
              /\ threads'[t].got[i] >= C26_Start
              /\ threads'[t].got[i] < C26_Start + rcount'[SharedId]
        /\ \A t \in DOMAIN threads :
              (threads[t].pc = "store" /\ threads'[t].pc # "store")
                 => counter'[SharedId] = threads[t].tmp + 1]_vars
(* both threads have made one build, both got the start value, and the     *)
(* counter is one past the start                                           *)
C26_Witness ==
    /\ DOMAIN threads = ThreadIds
    /\ \A t \in ThreadIds : threads[t].pc = "done" /\ threads[t].got = <<C26_Start>>
    /\ counter[SharedId] = C26_Start + 1

====
